---- MODULE Spec2Model ----
(***************************************************************************)
(* A model of nisupply: file discovery (find_files), regex extraction      *)
(* (regex_extract), the filepath table (get_filepath_df), its enrichment   *)
(* (add_bids_info, get_timepoint, get_dst_dir, get_bids_structure) and     *)
(* uncompress_files.                                                       *)
(*                                                                         *)
(* Spec covers discovery and the filepath table, SpecTimepoint covers      *)
(* get_timepoint and get_bids_df of the single-module revision, SpecEnrich *)
(* covers sequences of enrichment calls on one table, SpecUncompress       *)
(* covers runs of uncompress_files.                                        *)
(*                                                                         *)
(* Strings are sequences of one-character strings, so that suffix, prefix, *)
(* substring, lower-casing, path splitting and regex search are computed   *)
(* character by character.  The file system is a tree of directories       *)
(* below the current working directory; every directory lists its          *)
(* sub-directories and its files in the order os.walk reports them; for    *)
(* uncompress_files it is a function from the paths that exist to the      *)
(* directories and files with their data.                                  *)
(***************************************************************************)
EXTENDS Integers, Sequences, FiniteSets, TLC

VARIABLES fs, df, call

vars == <<fs, df, call>>

----------------------------------------------------------------------------
(* Bounds of the model *)

\* largest number of source directories handed to get_filepath_df as a list
MaxDirs == 2

\* largest number of subject ids handed to get_filepath_df
MaxIds == 2

----------------------------------------------------------------------------
(* Characters and strings *)

LowerChars ==
    <<"a","b","c","d","e","f","g","h","i","j","k","l","m",
      "n","o","p","q","r","s","t","u","v","w","x","y","z">>

UpperChars ==
    <<"A","B","C","D","E","F","G","H","I","J","K","L","M",
      "N","O","P","Q","R","S","T","U","V","W","X","Y","Z">>

Digits == {"0","1","2","3","4","5","6","7","8","9"}

Letters == {LowerChars[i] : i \in 1..26} \cup {UpperChars[i] : i \in 1..26}

AlNum == Letters \cup Digits

Sep == "/"

\* str.lower() on one character
LowerChar(c) ==
    IF \E i \in 1..26 : UpperChars[i] = c
    THEN LowerChars[CHOOSE i \in 1..26 : UpperChars[i] = c]
    ELSE c

\* str.lower()
Lower(s) == [i \in 1..Len(s) |-> LowerChar(s[i])]

\* s[i:i+len(t)] == t, for a 0-based offset i
HasAt(s, i, t) ==
    /\ i + Len(t) <= Len(s)
    /\ \A j \in 1..Len(t) : s[i + j] = t[j]

\* s.startswith(t), t a single string
StartsWith(s, t) == HasAt(s, 0, t)

\* s.endswith(t), t a single string
EndsWith(s, t) == Len(t) <= Len(s) /\ HasAt(s, Len(s) - Len(t), t)

\* t in s, for strings
Contains(s, t) == \E i \in 0..Len(s) : HasAt(s, i, t)

\* Op applied to the value of e, which is computed once
With(e, Op(_)) == CHOOSE r \in {Op(v) : v \in {e}} : TRUE

\* the elements of a sequence
Range(q) == {q[i] : i \in 1..Len(q)}

RECURSIVE Flatten(_)
\* [x for sub in q for x in sub]
Flatten(q) == IF q = <<>> THEN <<>> ELSE Head(q) \o Flatten(Tail(q))

RECURSIVE SplitAcc(_, _, _)
SplitAcc(s, i, cur) ==
    IF i > Len(s) THEN <<cur>>
    ELSE IF s[i] = Sep THEN <<cur>> \o SplitAcc(s, i + 1, <<>>)
    ELSE SplitAcc(s, i + 1, Append(cur, s[i]))

\* s.split('/')
Split(s) == SplitAcc(s, 1, <<>>)

RECURSIVE JoinSegs(_)
\* '/'.join(segs)
JoinSegs(segs) ==
    IF segs = <<>> THEN <<>>
    ELSE IF Len(segs) = 1 THEN segs[1]
    ELSE segs[1] \o <<Sep>> \o JoinSegs(Tail(segs))

Dot == <<".">>

DotDot == <<".", ".">>

RECURSIVE NormComps(_, _, _)
\* the component loop of posixpath.normpath
NormComps(comps, acc, absolute) ==
    IF comps = <<>> THEN acc
    ELSE LET c == Head(comps) IN
         IF c = <<>> \/ c = Dot THEN NormComps(Tail(comps), acc, absolute)
         ELSE IF c # DotDot
                 \/ (~absolute /\ acc = <<>>)
                 \/ (acc # <<>> /\ acc[Len(acc)] = DotDot)
              THEN NormComps(Tail(comps), Append(acc, c), absolute)
         ELSE IF acc # <<>>
              THEN NormComps(Tail(comps), SubSeq(acc, 1, Len(acc) - 1), absolute)
         ELSE NormComps(Tail(comps), acc, absolute)

\* os.path.normpath
NormPath(p) ==
    IF p = <<>> THEN Dot
    ELSE LET absolute == p[1] = Sep
             body == JoinSegs(NormComps(Split(p), <<>>, absolute))
         IN  IF absolute THEN <<Sep>> \o body
             ELSE IF body = <<>> THEN Dot ELSE body

\* os.path.join(a, b)
PathJoin(a, b) ==
    IF b # <<>> /\ b[1] = Sep THEN b
    ELSE IF a = <<>> \/ a[Len(a)] = Sep THEN a \o b
    ELSE a \o <<Sep>> \o b

----------------------------------------------------------------------------
(* Argument values: None, a single string, a tuple or a list of strings.   *)
(* The payload v is always a sequence of strings.                          *)

None == [t |-> "None", v |-> <<>>]

Str(s) == [t |-> "str", v |-> <<s>>]

Tup(q) == [t |-> "tuple", v |-> q]

List(q) == [t |-> "list", v |-> q]

\* bool(x) of an argument value
Truthy(x) ==
    CASE x.t = "None" -> FALSE
      [] x.t = "str" -> x.v[1] # <<>>
      [] OTHER -> x.v # <<>>

----------------------------------------------------------------------------
(* The file system: a directory is a name, the sub-directories and the     *)
(* files it lists (in listing order).                                      *)

Dir(name, dirs, files) == [name |-> name, dirs |-> dirs, files |-> files]

c_data == <<"d","a","t","a">>
c_bids == <<"b","i","d","s">>
c_empty == <<"e","m","p","t","y">>
c_sub == <<"s","u","b">>
c_ex == <<"e","x">>
c_e == <<"e">>
c_fa == <<"f","a">>
c_d1 == <<"d","1">>
c_d2 == <<"d","2">>
c_func == <<"f","u","n","c">>
c_nodir == <<"n","o","d","i","r">>

f_fa_ni == <<"f","a",".","n","i">>
f_FA_NI == <<"F","A",".","N","I">>
f_fb_tx == <<"f","b",".","t","x">>
f_b_ni == <<"b",".","n","i">>

e_sub01 == <<"s","u","b","-","0","1">>
e_sub02 == <<"s","u","b","-","0","2">>
e_ses1 == <<"_","s","e","s","-","1">>
e_ses2 == <<"_","s","e","s","-","2">>
e_echo1 == <<"_","e","c","h","o","-","0","1">>
e_run3 == <<"_","r","u","n","-","3">>
e_run == <<"_","r","u","n","-">>
x_ni == <<".","n","i">>
x_NI == <<".","N","I">>
x_tx == <<".","t","x">>

\* the tree below the current working directory
DiskTree ==
    Dir(<<>>,
        << Dir(c_data,
               << Dir(c_sub, << Dir(c_ex, <<>>, <<f_fa_ni>>) >>, <<f_fa_ni, f_fb_tx>>),
                  Dir(c_ex, <<>>, <<f_fa_ni>>),
                  Dir(c_fa, <<>>, <<f_b_ni, c_ex>>),
                  Dir(c_e, <<>>, <<f_fa_ni>>) >>,
               <<f_fa_ni, f_FA_NI>>),
           Dir(c_bids,
               << Dir(c_d1,
                      << Dir(c_func, <<>>, <<e_sub01 \o e_ses1 \o e_run3 \o x_ni>>) >>,
                      <<e_sub01 \o e_ses2 \o e_echo1 \o x_ni, e_sub01 \o e_ses1 \o x_ni>>),
                  Dir(c_d2, <<>>, <<e_sub02 \o e_ses1 \o x_ni, <<"x">> \o e_run \o x_ni>>) >>,
               <<>>),
           Dir(c_empty, <<>>, <<>>) >>,
        <<>>)

NoNode == [name |-> <<>>, dirs |-> <<>>, files |-> <<>>, missing |-> TRUE]

IsNode(n) == "missing" \notin DOMAIN n

RECURSIVE Lookup(_, _)
\* the directory reached from node by the path components segs
Lookup(node, segs) ==
    IF segs = <<>> THEN node
    ELSE IF Head(segs) = Dot THEN Lookup(node, Tail(segs))
    ELSE IF \E i \in 1..Len(node.dirs) : node.dirs[i].name = Head(segs)
         THEN Lookup(node.dirs[CHOOSE i \in 1..Len(node.dirs) :
                                  node.dirs[i].name = Head(segs)], Tail(segs))
         ELSE NoNode

\* the directory a (normalised, relative) path names, NoNode if there is none
Resolve(disk, path) ==
    IF path # <<>> /\ path[1] = Sep THEN NoNode
    ELSE Lookup(disk, Split(path))

\* os.path.isdir
IsDir(disk, path) == IsNode(Resolve(disk, path))

----------------------------------------------------------------------------
(* find_files *)

\* the keyword arguments of find_files other than src_dir
Kwargs(suffix, prefix, exclude, all, any, cs) ==
    [file_suffix |-> suffix, file_prefix |-> prefix, exclude_dirs |-> exclude,
     must_contain_all |-> all, must_contain_any |-> any, case_sensitive |-> cs]

\* the defaults of find_files
DefaultKwargs == Kwargs(None, None, None, None, None, TRUE)

WithSrc(kw, src_dir) ==
    [src_dir |-> src_dir, file_suffix |-> kw.file_suffix, file_prefix |-> kw.file_prefix,
     exclude_dirs |-> kw.exclude_dirs, must_contain_all |-> kw.must_contain_all,
     must_contain_any |-> kw.must_contain_any, case_sensitive |-> kw.case_sensitive]

\* d not in exclude_dirs, negated: membership for a list/tuple, substring for a str
InExclude(d, exclude_dirs) ==
    IF exclude_dirs.t = "str" THEN Contains(exclude_dirs.v[1], d)
    ELSE d \in Range(exclude_dirs.v)

\* a variant that rebinds dirs instead of changing it in place: nothing is pruned
PrunedNothing(dirs, exclude_dirs) == dirs

\* dirs[:] = [d for d in dirs if d not in exclude_dirs], under "if exclude_dirs"
Pruned(dirs, exclude_dirs) ==
    IF Truthy(exclude_dirs)
    THEN LET Keep(d) == ~InExclude(d.name, exclude_dirs) IN SelectSeq(dirs, Keep)
    ELSE dirs

RECURSIVE Walk(_, _, _)
RECURSIVE WalkDirs(_, _, _)
\* os.walk(top), top-down, with the pruning of the loop body applied before
\* descending: the sequence of (paths, files) visited
Walk(node, paths, exclude_dirs) ==
    <<[paths |-> paths, files |-> node.files]>>
        \o WalkDirs(Pruned(node.dirs, exclude_dirs), paths, exclude_dirs)

WalkDirs(dirs, paths, exclude_dirs) ==
    IF dirs = <<>> THEN <<>>
    ELSE Walk(Head(dirs), PathJoin(paths, Head(dirs).name), exclude_dirs)
             \o WalkDirs(Tail(dirs), paths, exclude_dirs)

\* os.walk yields nothing for a top that cannot be listed
OsWalk(disk, top, exclude_dirs) ==
    IF IsDir(disk, top) THEN Walk(Resolve(disk, top), top, exclude_dirs) ELSE <<>>

\* if isinstance(x, str): x = [x]
AsList(x) == IF x.t = "str" THEN List(x.v) ELSE x

\* file.endswith(x) for a str or a tuple of str
EndsWithAny(file, x) == \E i \in 1..Len(x.v) : EndsWith(file, x.v[i])

\* file.startswith(x) for a str or a tuple of str
StartsWithAny(file, x) == \E i \in 1..Len(x.v) : StartsWith(file, x.v[i])

\* the file name as the loop body compares it
Candidate(file, case_sensitive) == IF ~case_sensitive THEN Lower(file) ELSE file

\* a variant that tests suffix and prefix on the whole path
MatchesOnPath(file, filepath, a) ==
    LET cand == Candidate(filepath, a.case_sensitive)
        all == AsList(a.must_contain_all)
        any == AsList(a.must_contain_any)
    IN  /\ ~(Truthy(a.file_suffix) /\ ~EndsWithAny(cand, a.file_suffix))
        /\ ~(Truthy(a.file_prefix) /\ ~StartsWithAny(cand, a.file_prefix))
        /\ ~(Truthy(all) /\ ~(\A i \in 1..Len(all.v) : Contains(filepath, all.v[i])))
        /\ ~(Truthy(any) /\ ~(\E i \in 1..Len(any.v) : Contains(filepath, any.v[i])))

\* the loop body of find_files: TRUE when the file is appended
Matches(file, filepath, a) ==
    LET cand == Candidate(file, a.case_sensitive)
        all == AsList(a.must_contain_all)
        any == AsList(a.must_contain_any)
    IN  /\ ~(Truthy(a.file_suffix) /\ ~EndsWithAny(cand, a.file_suffix))
        /\ ~(Truthy(a.file_prefix) /\ ~StartsWithAny(cand, a.file_prefix))
        /\ ~(Truthy(all) /\ ~(\A i \in 1..Len(all.v) : Contains(filepath, all.v[i])))
        /\ ~(Truthy(any) /\ ~(\E i \in 1..Len(any.v) : Contains(filepath, any.v[i])))

\* the files one visited directory contributes to filepath_list
MatchedIn(visit, a) ==
    LET paths == [i \in 1..Len(visit.files) |-> PathJoin(visit.paths, visit.files[i])]
        Hit(p) == \E i \in 1..Len(visit.files) :
                      /\ paths[i] = p
                      /\ Matches(visit.files[i], p, a)
    IN  SelectSeq(paths, Hit)

\* a variant without the check of the source directory
RootNeverMissing(disk, src_dir) == FALSE

\* not os.path.isdir(src_dir)
RootMissing(disk, src_dir) == ~IsDir(disk, src_dir)

\* a variant that raises when no file was found
NoMatchRaises(filepath_list) == IF Len(filepath_list) = 0 THEN "OSError" ELSE "ok"

\* the status find_files ends with for a given filepath_list
NoMatchStatus(filepath_list) == "ok"

\* find_files(src_dir, ...): status, returned list, warning, directories visited
FindFiles(disk, a) ==
    LET src_dir == NormPath(a.src_dir)
        Result(visits, filepath_list) ==
            [status |-> NoMatchStatus(filepath_list),
             ret |-> IF NoMatchStatus(filepath_list) = "ok" THEN filepath_list ELSE <<>>,
             warned |-> IF Len(filepath_list) = 0 THEN 1 ELSE 0,
             visited |-> [i \in 1..Len(visits) |-> visits[i].paths]]
    IN  IF RootMissing(disk, src_dir)
        THEN [status |-> "OSError", ret |-> <<>>, warned |-> 0, visited |-> <<>>]
        ELSE With(OsWalk(disk, src_dir, a.exclude_dirs),
                  LAMBDA visits :
                      With(Flatten([i \in 1..Len(visits) |-> MatchedIn(visits[i], a)]),
                           LAMBDA filepath_list : Result(visits, filepath_list)))

----------------------------------------------------------------------------
(* Regular expressions.  A pattern is a sequence of alternatives (a|b|c),  *)
(* an alternative a sequence of elements, an element a literal or a greedy *)
(* repetition of a character class (min 0 for *, 1 for +), captured as a   *)
(* group or not.  Patterns with several alternatives capture nothing.      *)

Lit(s, cap) == [k |-> "lit", cap |-> cap, s |-> s, cls |-> {}, min |-> 0]

Cls(cls, min, cap) == [k |-> "cls", cap |-> cap, s |-> <<>>, cls |-> cls, min |-> min]

Pattern(alts) == [alts |-> alts]

SetMax(S) == CHOOSE x \in S : \A y \in S : y <= x

SetMin(S) == CHOOSE x \in S : \A y \in S : x <= y

\* the number of characters of class cls that s holds from offset i on
RunLen(s, i, cls) ==
    SetMax({n \in 0..(Len(s) - i) : \A j \in 1..n : s[i + j] \in cls})

NoSpans == [ok |-> FALSE, spans |-> <<>>]

RECURSIVE MatchFrom(_, _, _, _)
\* the backtracking matcher: the elements k.. of elems against s at offset i,
\* a greedy repetition giving back one character at a time;
\* spans are the <<start, end>> offsets of the elements matched
MatchFrom(elems, k, s, i) ==
    IF k > Len(elems) THEN [ok |-> TRUE, spans |-> <<>>]
    ELSE LET e == elems[k] IN
         IF e.k = "lit"
         THEN IF HasAt(s, i, e.s)
              THEN LET rest == MatchFrom(elems, k + 1, s, i + Len(e.s)) IN
                   IF rest.ok
                   THEN [ok |-> TRUE, spans |-> <<<<i, i + Len(e.s)>>>> \o rest.spans]
                   ELSE NoSpans
              ELSE NoSpans
         ELSE With({n \in e.min..RunLen(s, i, e.cls) :
                        MatchFrom(elems, k + 1, s, i + n).ok},
                   LAMBDA good :
                       IF good = {} THEN NoSpans
                       ELSE LET n == SetMax(good) IN
                            [ok |-> TRUE,
                             spans |-> <<<<i, i + n>>>>
                                          \o MatchFrom(elems, k + 1, s, i + n).spans])

NoMatch == [found |-> FALSE, start |-> 0, end |-> 0, groups |-> <<>>]

\* the spans of the capturing elements, in order
GroupSpans(elems, spans) ==
    LET idx == [i \in 1..Len(elems) |-> i]
        Cap(i) == elems[i].cap
        caps == SelectSeq(idx, Cap)
    IN  [g \in 1..Len(caps) |-> spans[caps[g]]]

\* re.search(pattern, s): the leftmost offset at which an alternative matches,
\* the first such alternative in the order written
Search(pattern, s) ==
    LET alts == pattern.alts
        At(i) == {a \in 1..Len(alts) : MatchFrom(alts[a], 1, s, i).ok}
        Found(i, a, m) ==
            [found |-> TRUE, start |-> i,
             end |-> IF m.spans = <<>> THEN i ELSE m.spans[Len(m.spans)][2],
             groups |-> GroupSpans(alts[a], m.spans)]
    IN  With({i \in 0..Len(s) : At(i) # {}},
             LAMBDA starts :
                 IF starts = {} THEN NoMatch
                 ELSE LET i == SetMin(starts)
                          a == SetMin(At(i))
                      IN  With(MatchFrom(alts[a], 1, s, i), LAMBDA m : Found(i, a, m)))

\* table values: a string or the absent marker np.nan
StrVal(s) == [k |-> "str", s |-> s]

NaN == [k |-> "nan", s |-> <<>>]

\* a variant that ignores re_group and returns match.group()
MatchGroupWhole(m, s, re_group) ==
    [status |-> "ok", v |-> StrVal(SubSeq(s, m.start + 1, m.end))]

\* match.group(re_group)
MatchGroup(m, s, re_group) ==
    IF re_group = 0 THEN [status |-> "ok", v |-> StrVal(SubSeq(s, m.start + 1, m.end))]
    ELSE IF re_group \in 1..Len(m.groups)
         THEN [status |-> "ok",
               v |-> StrVal(SubSeq(s, m.groups[re_group][1] + 1, m.groups[re_group][2]))]
         ELSE [status |-> "IndexError", v |-> NaN]

\* a variant that calls match.group on a search that found nothing
RegexExtractRaises(filepath, pattern, re_group) ==
    With(Search(pattern, filepath),
         LAMBDA match :
             IF match.found THEN MatchGroup(match, filepath, re_group)
             ELSE [status |-> "AttributeError", v |-> NaN])

\* regex_extract(filepath, pattern, re_group)
RegexExtract(filepath, pattern, re_group) ==
    With(Search(pattern, filepath),
         LAMBDA match :
             IF match.found THEN MatchGroup(match, filepath, re_group)
             ELSE [status |-> "ok", v |-> NaN])

\* the value of re_group when the caller passes none
DefaultReGroup == 0

\* '(_ses-)(\d+)', '(_run-)(\d+)', '(_echo-)(\d+)'
TagDigits(tag) == Pattern(<< <<Lit(tag, TRUE), Cls(Digits, 1, TRUE)>> >>)

\* 'func|dwi|fmap|anat|meg|eeg|ieeg|beh'
DataTypePattern ==
    LET Alt(s) == <<Lit(s, FALSE)>> IN
    Pattern(<< Alt(<<"f","u","n","c">>), Alt(<<"d","w","i">>), Alt(<<"f","m","a","p">>),
               Alt(<<"a","n","a","t">>), Alt(<<"m","e","g">>), Alt(<<"e","e","g">>),
               Alt(<<"i","e","e","g">>), Alt(<<"b","e","h">>) >>)

\* BIDS_ENTITY_REGEX_DICT, in the order of its keys
BIDS_ENTITY_REGEX_DICT ==
    << [entity |-> "session", pattern |-> TagDigits(<<"_","s","e","s","-">>), re_group |-> 2],
       [entity |-> "run", pattern |-> TagDigits(<<"_","r","u","n","-">>), re_group |-> 2],
       [entity |-> "data_type", pattern |-> DataTypePattern, re_group |-> 0],
       [entity |-> "echo", pattern |-> TagDigits(<<"_","e","c","h","o","-">>), re_group |-> 2] >>

\* the default id_pattern of get_filepath_df, '(sub-)([a-zA-Z0-9]+)'
DefaultIdPattern ==
    Pattern(<< <<Lit(<<"s","u","b","-">>, TRUE), Cls(AlNum, 1, TRUE)>> >>)

\* the default re_group of get_filepath_df
DefaultIdGroup == 2

----------------------------------------------------------------------------
(* The table (a pandas DataFrame): its column names in order and its rows, *)
(* each row a function from the column names to values.                    *)

\* the caller holds no table
NoTable == [cols |-> <<>>, rows |-> <<>>]

\* pd.DataFrame({'filepath': files})
FilepathFrame(files) ==
    [cols |-> <<"filepath">>,
     rows |-> [i \in 1..Len(files) |-> [c \in {"filepath"} |-> StrVal(files[i])]]]

\* a variant that puts a new column in front of the others
SetColumnFirst(table, name, values) ==
    [cols |-> IF name \in Range(table.cols) THEN table.cols ELSE <<name>> \o table.cols,
     rows |-> [i \in 1..Len(table.rows) |->
                  [c \in Range(table.cols) \cup {name} |->
                      IF c = name THEN values[i] ELSE table.rows[i][c]]]]

\* df[name] = values: a new column is appended, an existing one overwritten
SetColumn(table, name, values) ==
    [cols |-> IF name \in Range(table.cols) THEN table.cols ELSE Append(table.cols, name),
     rows |-> [i \in 1..Len(table.rows) |->
                  [c \in Range(table.cols) \cup {name} |->
                      IF c = name THEN values[i] ELSE table.rows[i][c]]]]

\* df['filepath'].apply(regex_extract, ...): one result per row
ApplyExtract(table, pattern, re_group) ==
    [i \in 1..Len(table.rows) |->
        RegexExtract(table.rows[i]["filepath"].s, pattern, re_group)]

\* the first exception among the results of an apply, "ok" if there is none
FirstError(results) ==
    IF \E i \in 1..Len(results) : results[i].status # "ok"
    THEN results[SetMin({i \in 1..Len(results) : results[i].status # "ok"})].status
    ELSE "ok"

\* df[name] = df['filepath'].apply(regex_extract, pattern, re_group)
ExtractColumn(table, name, pattern, re_group) ==
    With(ApplyExtract(table, pattern, re_group),
         LAMBDA results :
             IF FirstError(results) # "ok"
             THEN [status |-> FirstError(results), table |-> table]
             ELSE [status |-> "ok",
                   table |-> SetColumn(table, name,
                                       [i \in 1..Len(results) |-> results[i].v])])

----------------------------------------------------------------------------
(* get_filepath_df *)

\* [find_files(src_dir, **kwargs) for src_dir in src_dir]
FindEach(disk, dirs, kw) == [i \in 1..Len(dirs) |-> FindFiles(disk, WithSrc(kw, dirs[i]))]

RECURSIVE FirstKeys(_, _)
\* the keys of dict(zip(keys, ...)): every key once, at its first position
FirstKeys(keys, seen) ==
    IF keys = <<>> THEN <<>>
    ELSE IF Head(keys) \in seen THEN FirstKeys(Tail(keys), seen)
    ELSE <<Head(keys)>> \o FirstKeys(Tail(keys), seen \cup {Head(keys)})

\* dict(zip(subject_ids, files)).items(): zip stops at the shorter argument,
\* a repeated key keeps its first position and takes the last value
DictZip(subject_ids, files) ==
    LET n == IF Len(subject_ids) < Len(files) THEN Len(subject_ids) ELSE Len(files)
        keys == FirstKeys(SubSeq(subject_ids, 1, n), {})
    IN  [k \in 1..Len(keys) |->
            [key |-> keys[k],
             value |-> files[SetMax({i \in 1..n : subject_ids[i] = keys[k]})]]]

\* pd.DataFrame([(s, f) for s, sublist in files.items() for f in sublist],
\*              columns=[id_column_name, 'filepath'])
MappedFrame(items, id_column_name) ==
    LET rowsOf(item) ==
            [j \in 1..Len(item.value) |->
                [c \in {id_column_name, "filepath"} |->
                    IF c = "filepath" THEN StrVal(item.value[j]) ELSE StrVal(item.key)]]
    IN  [cols |-> <<id_column_name, "filepath">>,
         rows |-> Flatten([k \in 1..Len(items) |-> rowsOf(items[k])])]

\* the number of warnings signalled before the call ended
Warnings(found) ==
    LET last == IF \E i \in 1..Len(found) : found[i].status # "ok"
                THEN SetMin({i \in 1..Len(found) : found[i].status # "ok"})
                ELSE Len(found)
        Warned(i) == found[i].warned = 1
    IN  Cardinality({i \in 1..last : Warned(i)})

\* get_filepath_df(src_dir, subject_ids, extract_id, id_pattern, re_group,
\*                 id_column_name, **kwargs): status, returned table, warnings
GetFilepathDf(disk, a) ==
    With(IF a.src_dir.t = "str"
         THEN <<FindFiles(disk, WithSrc(a.kwargs, a.src_dir.v[1]))>>
         ELSE FindEach(disk, a.src_dir.v, a.kwargs),
         LAMBDA found :
             IF FirstError(found) # "ok"
             THEN [status |-> FirstError(found), table |-> NoTable,
                   warned |-> Warnings(found)]
             ELSE IF a.extract_id
             THEN With(ExtractColumn(
                           FilepathFrame(Flatten([i \in 1..Len(found) |-> found[i].ret])),
                           a.id_column_name, a.id_pattern, a.re_group),
                       LAMBDA extracted :
                           [status |-> extracted.status,
                            table |-> IF extracted.status = "ok"
                                      THEN extracted.table ELSE NoTable,
                            warned |-> Warnings(found)])
             ELSE IF a.src_dir.t # "str" /\ Truthy(a.subject_ids)
             THEN [status |-> "ok",
                   table |-> MappedFrame(DictZip(a.subject_ids.v,
                                                 [i \in 1..Len(found) |-> found[i].ret]),
                                         a.id_column_name),
                   warned |-> Warnings(found)]
             ELSE [status |-> "ok",
                   table |-> FilepathFrame(Flatten([i \in 1..Len(found) |-> found[i].ret])),
                   warned |-> Warnings(found)])

----------------------------------------------------------------------------
(* add_bids_info *)

\* if not regex_dict: regex_dict = BIDS_ENTITY_REGEX_DICT
EffectiveDict(regex_dict) ==
    IF regex_dict = <<>> THEN BIDS_ENTITY_REGEX_DICT ELSE regex_dict

\* the mapping the loop of add_bids_info iterates over
LoopDict(regex_dict) == BIDS_ENTITY_REGEX_DICT

RECURSIVE AddEntities(_, _)
\* for entity, regex_info in ...: df[entity] = df['filepath'].apply(...);
\* the table is changed in place, so the columns set before an exception stay
AddEntities(table, entries) ==
    IF entries = <<>> THEN [status |-> "ok", table |-> table]
    ELSE With(ExtractColumn(table, Head(entries).entity, Head(entries).pattern,
                            Head(entries).re_group),
              LAMBDA step :
                  IF step.status # "ok" THEN step
                  ELSE AddEntities(step.table, Tail(entries)))

\* add_bids_info(df, regex_dict); regex_dict None (or empty) is <<>>
AddBidsInfo(table, regex_dict) == AddEntities(table, LoopDict(EffectiveDict(regex_dict)))

----------------------------------------------------------------------------
(* The calls a script makes.  Calls share no state (every call works on    *)
(* the disk and on its own arguments), so a run is one discovery call      *)
(* followed by enrichment calls on the table it returned.                  *)

NoCall == [op |-> "none"]

\* largest number of enrichment calls made on one table
MaxCalls == 2

\* the script holds a table it has built
TableCall == [op |-> "DataFrame", r |-> [status |-> "ok"], n |-> 0]

\* the calls that leave the script with a table
TableOps ==
    {"DataFrame", "get_filepath_df", "get_bids_df", "add_bids_info",
     "get_timepoint", "get_dst_dir", "get_bids_structure"}

\* the number of enrichment calls made so far
Steps(c) == IF "n" \in DOMAIN c THEN c.n ELSE 0

\* the script holds a table and may make another enrichment call
HoldsTable ==
    /\ call.op \in TableOps
    /\ call.r.status = "ok"
    /\ Steps(call) < MaxCalls

\* src_dir values handed to find_files
SrcDirs ==
    { c_data, c_data \o <<Sep>>, c_data \o <<Sep>> \o c_ex,
      c_data \o <<Sep>> \o f_fa_ni, c_nodir, c_empty, c_bids }

SuffixArgs == { None, Str(x_ni), Str(x_NI), Tup(<<x_ni, x_tx>>) }

PrefixArgs == { None, Str(c_fa), Tup(<<<<"F","A">>, <<"b">>>>) }

ExcludeArgs == { None, List(<<>>), List(<<c_ex>>), List(<<c_sub, c_fa>>), Str(c_ex) }

ContainAllArgs == { None, Str(c_sub), List(<<c_data, c_ex>>) }

ContainAnyArgs == { None, List(<<c_sub, <<"D","A","T","A">>>>) }

\* every sequence over S of length at most n
SeqsUpTo(S, n) == UNION {[1..k -> S] : k \in 0..n}

\* paths handed to regex_extract
RegexPaths ==
    { <<"s","/","f","m","r","i","_","t","a","s","k">> \o e_echo1
          \o <<".","n","i","i",".","g","z">>,
      c_bids \o <<Sep>> \o c_d1 \o <<Sep>> \o c_func \o <<Sep>>
          \o e_sub01 \o e_ses1 \o e_run3 \o x_ni,
      c_bids \o <<Sep>> \o c_d2 \o <<Sep>> \o <<"x">> \o e_run \o x_ni,
      c_data \o <<Sep>> \o f_fa_ni,
      <<"r","-","0","1","1">> \o e_echo1,
      <<"a","_","e","c","h","o","-","1","_","e","c","h","o","-","2","2">> }

\* '(_run-)(\d*)'
RunStarPattern ==
    Pattern(<< <<Lit(e_run, TRUE), Cls(Digits, 0, TRUE)>> >>)

\* '(\d+)(1)'
DigitsOnePattern ==
    Pattern(<< <<Cls(Digits, 1, TRUE), Lit(<<"1">>, TRUE)>> >>)

\* patterns handed to regex_extract
RegexPatterns ==
    { BIDS_ENTITY_REGEX_DICT[i].pattern : i \in 1..Len(BIDS_ENTITY_REGEX_DICT) }
        \cup { DefaultIdPattern, RunStarPattern, DigitsOnePattern }

\* re_group values handed to regex_extract
ReGroups == 0..3

\* source directories handed to get_filepath_df
DfDirs == { c_bids \o <<Sep>> \o c_d1, c_bids \o <<Sep>> \o c_d2, c_nodir }

\* subject ids handed to get_filepath_df
SubjectIds == { <<"A">>, <<"B">> }

\* find_files keyword arguments handed to get_filepath_df
DfKwargs ==
    { DefaultKwargs,
      Kwargs(Str(x_ni), None, List(<<c_func>>), None, None, TRUE),
      Kwargs(Str(x_tx), None, None, None, None, TRUE) }

\* regex_dict values handed to add_bids_info; <<>> is None (or {})
RegexDicts ==
    { <<>>,
      << [entity |-> "subject", pattern |-> DefaultIdPattern, re_group |-> 2],
         [entity |-> "run", pattern |-> RunStarPattern, re_group |-> 2] >>,
      << [entity |-> "echo", pattern |-> TagDigits(<<"_","e","c","h","o","-">>),
          re_group |-> 1] >> }

Init ==
    /\ fs = DiskTree
    /\ df = NoTable
    /\ call = NoCall

\* a script calls find_files
CallFindFiles ==
    /\ call.op = "none"
    /\ \E src_dir \in SrcDirs, suffix \in SuffixArgs, prefix \in PrefixArgs,
          exclude \in ExcludeArgs, all \in ContainAllArgs, any \in ContainAnyArgs,
          cs \in BOOLEAN :
          LET a == WithSrc(Kwargs(suffix, prefix, exclude, all, any, cs), src_dir)
          IN  call' = [op |-> "find_files", a |-> a, r |-> FindFiles(fs, a)]
    /\ UNCHANGED <<fs, df>>

\* a script calls regex_extract, with or without a re_group
CallRegexExtract ==
    /\ call.op = "none"
    /\ \E filepath \in RegexPaths, pattern \in RegexPatterns,
          given \in BOOLEAN, g \in ReGroups :
          /\ given \/ g = DefaultReGroup
          /\ call' = [op |-> "regex_extract",
                      a |-> [filepath |-> filepath, pattern |-> pattern,
                             given |-> given, re_group |-> g],
                      r |-> RegexExtract(filepath, pattern,
                                         IF given THEN g ELSE DefaultReGroup)]
    /\ UNCHANGED <<fs, df>>

\* a script calls df = get_filepath_df(...)
CallGetFilepathDf ==
    /\ call.op = "none"
    /\ \E src_dir \in {Str(d) : d \in DfDirs} \cup {List(q) : q \in SeqsUpTo(DfDirs, MaxDirs)},
          subject_ids \in {None} \cup {List(q) : q \in SeqsUpTo(SubjectIds, MaxIds)},
          extract_id \in BOOLEAN, re_group \in {DefaultIdGroup, 0}, kw \in DfKwargs :
          /\ extract_id \/ re_group = DefaultIdGroup
          /\ \E a \in {[src_dir |-> src_dir, subject_ids |-> subject_ids,
                         extract_id |-> extract_id, id_pattern |-> DefaultIdPattern,
                         re_group |-> re_group, id_column_name |-> "subject_id",
                         kwargs |-> kw]} :
                \E r \in {GetFilepathDf(fs, a)} :
                    /\ call' = [op |-> "get_filepath_df", a |-> a,
                                r |-> [status |-> r.status, warned |-> r.warned]]
                    /\ df' = IF r.status = "ok" THEN r.table ELSE df
    /\ UNCHANGED fs

\* a script calls df = add_bids_info(df, regex_dict) on the table it holds
CallAddBidsInfo ==
    /\ HoldsTable
    /\ \E regex_dict \in RegexDicts :
          \E r \in {AddBidsInfo(df, regex_dict)} :
              /\ call' = [op |-> "add_bids_info", a |-> [regex_dict |-> regex_dict],
                          r |-> [status |-> r.status], before |-> df,
                          n |-> Steps(call) + 1]
              /\ df' = r.table
    /\ UNCHANGED fs

Next ==
    \/ CallFindFiles
    \/ CallRegexExtract
    \/ CallGetFilepathDf
    \/ CallAddBidsInfo

Spec == Init /\ [][Next]_vars

----------------------------------------------------------------------------
(* Properties of find_files *)

FoundFiles == call.op = "find_files" /\ call.r.status = "ok"

\* the names given as exclude_dirs
ExcludeSet(exclude_dirs) == Range(exclude_dirs.v)

\* the last segment of a path
BaseName(p) == Split(p)[Len(Split(p))]

\* the directory names between the root and the file name of a returned path
DirsBelowRoot(p, root) == SubSeq(Split(p), Len(Split(root)) + 1, Len(Split(p)) - 1)

\* every file below root, in traversal order, when nothing is pruned or filtered
FullListing(disk, root) ==
    LET visits == OsWalk(disk, root, None)
    IN  Flatten([i \in 1..Len(visits) |->
                    [j \in 1..Len(visits[i].files) |->
                        PathJoin(visits[i].paths, visits[i].files[j])]])

\* C1 as stated: no returned path has a name of the exclude set as a segment,
\* the segments of the root and the file name included
C1_NoExcludedSegment ==
    FoundFiles =>
        \A i \in 1..Len(call.r.ret) :
            \A seg \in Range(Split(call.r.ret[i])) :
                seg \notin ExcludeSet(call.a.exclude_dirs)

\* C1 amended: no returned path has a name of the exclude set as a directory
\* segment strictly below the root; the root's own segments and the file name
\* are not tested
C1_NoExcludedDirBelowRoot ==
    FoundFiles =>
        \A i \in 1..Len(call.r.ret) :
            \A seg \in Range(DirsBelowRoot(call.r.ret[i], NormPath(call.a.src_dir))) :
                seg \notin ExcludeSet(call.a.exclude_dirs)

\* find_files returned files although it pruned a directory of the tree
C1_Witness ==
    /\ FoundFiles
    /\ call.a.exclude_dirs.t = "list"
    /\ call.r.ret # <<>>
    /\ Len(call.r.visited) < Len(OsWalk(fs, NormPath(call.a.src_dir), None))

\* a predicate that is configured
Configured(x) == x.t # "None" /\ x.v # <<>>

\* the predicates of the call, read literally on a path of the full listing
Satisfies(p, a) ==
    /\ \A seg \in Range(DirsBelowRoot(p, NormPath(a.src_dir))) :
           ~(Configured(a.exclude_dirs) /\ InExclude(seg, a.exclude_dirs))
    /\ Configured(a.file_suffix) =>
           \E x \in Range(a.file_suffix.v) : EndsWith(BaseName(p), x)
    /\ Configured(a.file_prefix) =>
           \E x \in Range(a.file_prefix.v) : StartsWith(BaseName(p), x)
    /\ Configured(a.must_contain_all) =>
           \A x \in Range(a.must_contain_all.v) : Contains(p, x)
    /\ Configured(a.must_contain_any) =>
           \E x \in Range(a.must_contain_any.v) : Contains(p, x)

\* the full listing restricted to the paths that satisfy the predicates
Expected(disk, a) ==
    LET Ok(p) == Satisfies(p, a) IN SelectSeq(FullListing(disk, NormPath(a.src_dir)), Ok)

\* C2 as stated: the returned list is, once each and in traversal order, exactly
\* the files outside pruned directories that satisfy every configured predicate
C2_ExactlyTheMatches ==
    FoundFiles => call.r.ret = Expected(fs, call.a)

\* C2 amended: with case_sensitive=True (the default) the returned list is, once
\* each and in traversal order, exactly the files outside pruned directories
\* that satisfy every configured predicate
C2_ExactlyTheMatchesCaseSensitive ==
    (FoundFiles /\ call.a.case_sensitive) => call.r.ret = Expected(fs, call.a)

\* a case-sensitive search with suffix and prefix that kept some files and
\* dropped others
C2_Witness ==
    /\ FoundFiles
    /\ call.a.case_sensitive
    /\ Configured(call.a.file_suffix)
    /\ Configured(call.a.file_prefix)
    /\ call.r.ret # <<>>
    /\ Len(call.r.ret) < Len(FullListing(fs, NormPath(call.a.src_dir)))

\* the predicates of the call read up to letter case
SatisfiesLower(p, a) ==
    /\ \A seg \in Range(DirsBelowRoot(p, NormPath(a.src_dir))) :
           ~(Configured(a.exclude_dirs) /\ InExclude(seg, a.exclude_dirs))
    /\ Configured(a.file_suffix) =>
           \E x \in Range(a.file_suffix.v) : EndsWith(Lower(BaseName(p)), Lower(x))
    /\ Configured(a.file_prefix) =>
           \E x \in Range(a.file_prefix.v) : StartsWith(Lower(BaseName(p)), Lower(x))
    /\ Configured(a.must_contain_all) =>
           \A x \in Range(a.must_contain_all.v) : Contains(Lower(p), Lower(x))
    /\ Configured(a.must_contain_any) =>
           \E x \in Range(a.must_contain_any.v) : Contains(Lower(p), Lower(x))

\* C3: with case_sensitive=False every file that matches the predicates up to
\* letter case is returned
C3_CaseInsensitiveMatch ==
    (FoundFiles /\ ~call.a.case_sensitive) =>
        \A p \in Range(FullListing(fs, NormPath(call.a.src_dir))) :
            SatisfiesLower(p, call.a) => p \in Range(call.r.ret)

\* the source directories of a get_filepath_df call
CallDirs == call.a.src_dir.v

\* C4: find_files on a root that is no directory raises before it visits
\* anything and returns no list; get_filepath_df given a directory that is
\* missing raises the same error and the caller gets no table
C4_MissingRootFails ==
    /\ (call.op = "find_files" /\ ~IsDir(fs, NormPath(call.a.src_dir))) =>
           /\ call.r.status = "OSError"
           /\ call.r.visited = <<>>
           /\ call.r.ret = <<>>
    /\ (call.op = "get_filepath_df"
            /\ \E i \in 1..Len(CallDirs) : ~IsDir(fs, NormPath(CallDirs[i]))) =>
           /\ call.r.status = "OSError"
           /\ df = NoTable

\* get_filepath_df was given two directories, the first with files, the second
\* missing, and raised
C4_Witness ==
    /\ call.op = "get_filepath_df"
    /\ call.a.src_dir.t = "list"
    /\ Len(CallDirs) = 2
    /\ FullListing(fs, NormPath(CallDirs[1])) # <<>>
    /\ ~IsDir(fs, NormPath(CallDirs[2]))
    /\ call.r.status = "OSError"

\* the files find_files(dir, **kwargs) is expected to return
ExpectedIn(dir, kw) == Expected(fs, WithSrc(kw, dir))

----------------------------------------------------------------------------
(* Properties of regex_extract: what a search finds, stated on the offsets *)
(* of a match instead of by running the matcher.                           *)

RECURSIVE LenChoices(_, _)
\* the lengths the elements of an alternative may take in a string of length n
LenChoices(elems, n) ==
    IF elems = <<>> THEN {<<>>}
    ELSE {<<l>> \o rest :
             l \in (IF Head(elems).k = "lit" THEN {Len(Head(elems).s)}
                    ELSE Head(elems).min..n),
             rest \in LenChoices(Tail(elems), n)}

RECURSIVE SumTo(_, _)
\* lens[1] + ... + lens[k]
SumTo(lens, k) == IF k = 0 THEN 0 ELSE lens[k] + SumTo(lens, k - 1)

\* the elements take the lengths lens from offset i of s
FitsAt(elems, s, i, lens) ==
    /\ i + SumTo(lens, Len(lens)) <= Len(s)
    /\ \A k \in 1..Len(elems) :
           LET from == i + SumTo(lens, k - 1) IN
           IF elems[k].k = "lit"
           THEN SubSeq(s, from + 1, from + lens[k]) = elems[k].s
           ELSE \A j \in (from + 1)..(from + lens[k]) : s[j] \in elems[k].cls

\* every way the pattern matches somewhere in s: offset, alternative, lengths
AllFits(pattern, s) ==
    UNION {
        {[i |-> x[1], a |-> a, lens |-> x[2]] :
            x \in {y \in (0..Len(s)) \X LenChoices(pattern.alts[a], Len(s)) :
                      FitsAt(pattern.alts[a], s, y[1], y[2])}}
        : a \in 1..Len(pattern.alts)}

\* x comes before y in the order a greedy matcher tries lengths
LexGreater(x, y) ==
    \E k \in 1..Len(x) : x[k] > y[k] /\ \A j \in 1..(k - 1) : x[j] = y[j]

\* the match re.search reports: leftmost, then the first alternative, then
\* the longest repetitions from left to right
BestFit(fits) ==
    CHOOSE m \in fits :
        \A n \in fits \ {m} :
            \/ m.i < n.i
            \/ m.i = n.i /\ m.a < n.a
            \/ m.i = n.i /\ m.a = n.a /\ LexGreater(m.lens, n.lens)

\* the number of capture groups of a pattern
NGroups(pattern) ==
    IF Len(pattern.alts) # 1 THEN 0
    ELSE Cardinality({k \in 1..Len(pattern.alts[1]) : pattern.alts[1][k].cap})

\* the text of group g (0: the whole match) of the match m in s
GroupText(pattern, s, m, g) ==
    LET elems == pattern.alts[m.a] IN
    IF g = 0 THEN SubSeq(s, m.i + 1, m.i + SumTo(m.lens, Len(m.lens)))
    ELSE LET k == CHOOSE k \in 1..Len(elems) :
                      /\ elems[k].cap
                      /\ Cardinality({j \in 1..k : elems[j].cap}) = g
         IN  SubSeq(s, m.i + SumTo(m.lens, k - 1) + 1, m.i + SumTo(m.lens, k))

\* what regex_extract is to return for group g: the text of the group in the
\* first match, the absent marker if there is no match
Extracted(pattern, s, g) ==
    With(AllFits(pattern, s),
         LAMBDA fits : IF fits = {} THEN NaN
                       ELSE StrVal(GroupText(pattern, s, BestFit(fits), g)))

Extracting == call.op = "regex_extract"

\* C6 as stated: regex_extract returns the text of group g of the leftmost
\* match, g = 0 the whole match, and without a re_group the first capture group
C6_DefaultFirstGroup ==
    LET g == IF call.a.given THEN call.a.re_group
             ELSE IF NGroups(call.a.pattern) >= 1 THEN 1 ELSE 0
    IN  (/\ Extracting
         /\ g \in 0..NGroups(call.a.pattern)
         /\ AllFits(call.a.pattern, call.a.filepath) # {}) =>
            call.r = [status |-> "ok",
                      v |-> Extracted(call.a.pattern, call.a.filepath, g)]

\* C6 amended: regex_extract returns the text of group g of the leftmost
\* match, g = 0 the whole match, and without a re_group the whole match
C6_DefaultWholeMatch ==
    LET g == IF call.a.given THEN call.a.re_group ELSE 0
    IN  (/\ Extracting
         /\ g \in 0..NGroups(call.a.pattern)
         /\ AllFits(call.a.pattern, call.a.filepath) # {}) =>
            call.r = [status |-> "ok",
                      v |-> Extracted(call.a.pattern, call.a.filepath, g)]

\* '(_echo-)(\d+)' with group 2 on 's/fmri_task_echo-01.nii.gz' gave '01'
C6_Witness ==
    /\ Extracting
    /\ call.a.pattern = TagDigits(<<"_","e","c","h","o","-">>)
    /\ call.a.given
    /\ call.a.re_group = 2
    /\ Contains(call.a.filepath, <<"f","m","r","i","_","t","a","s","k">>)
    /\ call.r = [status |-> "ok", v |-> StrVal(<<"0","1">>)]

----------------------------------------------------------------------------
(* Properties of the table builders *)

\* the values of one column, row by row
Column(table, name) == [i \in 1..Len(table.rows) |-> table.rows[i][name]]

\* the filepath of row i
PathOf(table, i) == table.rows[i]["filepath"].s

\* C7: regex_extract returns the absent marker, without raising, exactly when
\* the pattern has no match, and a string (possibly empty) when it has one;
\* add_bids_info and the id extraction of get_filepath_df complete for every
\* table and record the absent marker in the rows without a match
C7_MissIsAbsent ==
    /\ Extracting =>
           /\ AllFits(call.a.pattern, call.a.filepath) = {} =>
                  call.r = [status |-> "ok", v |-> NaN]
           /\ (/\ AllFits(call.a.pattern, call.a.filepath) # {}
               /\ (IF call.a.given THEN call.a.re_group ELSE 0)
                      \in 0..NGroups(call.a.pattern)) =>
                  (call.r.status = "ok" /\ call.r.v.k = "str")
    /\ call.op = "add_bids_info" =>
           /\ call.r.status = "ok"
           /\ Len(df.rows) = Len(call.before.rows)
           /\ \A e \in Range(BIDS_ENTITY_REGEX_DICT) :
                  call.a.regex_dict = <<>> =>
                      \A i \in 1..Len(df.rows) :
                          df.rows[i][e.entity] =
                              Extracted(e.pattern, PathOf(df, i), e.re_group)
    /\ (/\ call.op = "get_filepath_df"
        /\ call.a.extract_id
        /\ \A i \in 1..Len(CallDirs) : IsDir(fs, NormPath(CallDirs[i]))) =>
           /\ call.r.status = "ok"
           /\ Len(df.rows) =
                  Len(Flatten([i \in 1..Len(CallDirs) |->
                                  FindFiles(fs, WithSrc(call.a.kwargs, CallDirs[i])).ret]))
           /\ \A i \in 1..Len(df.rows) :
                  df.rows[i][call.a.id_column_name] =
                      Extracted(call.a.id_pattern, PathOf(df, i), call.a.re_group)

\* add_bids_info completed on a table in which one row has a run number and
\* another row has none
C7_Witness ==
    /\ call.op = "add_bids_info"
    /\ call.r.status = "ok"
    /\ \E i, j \in 1..Len(df.rows) :
           /\ df.rows[i]["run"] = NaN
           /\ df.rows[j]["run"].k = "str"

\* the entity names of a regex_dict
Keys(regex_dict) == {regex_dict[i].entity : i \in 1..Len(regex_dict)}

\* C8: a custom regex_dict replaces the default entity set: the columns added
\* are exactly its keys, each filled by its own (pattern, group)
C8_CustomDictReplacesDefault ==
    (call.op = "add_bids_info" /\ call.a.regex_dict # <<>>) =>
        /\ call.r.status = "ok"
        /\ Range(df.cols) = Range(call.before.cols) \cup Keys(call.a.regex_dict)
        /\ \A e \in Range(call.a.regex_dict) :
               \A i \in 1..Len(df.rows) :
                   df.rows[i][e.entity] = Extracted(e.pattern, PathOf(df, i), e.re_group)

\* get_filepath_df was called in explicit-mapping mode: a list of directories
\* with a list of subject ids and no id extraction
ExplicitMapping ==
    /\ call.op = "get_filepath_df"
    /\ call.a.src_dir.t = "list"
    /\ call.a.subject_ids.t = "list"
    /\ ~call.a.extract_id

\* C9: explicit mapping with lists of different lengths fails with a
\* ValueError and returns no table (read here for non-empty lists and
\* directories that all exist)
C9_LengthMismatchFails ==
    (/\ ExplicitMapping
     /\ call.a.subject_ids.v # <<>>
     /\ CallDirs # <<>>
     /\ \A i \in 1..Len(CallDirs) : IsDir(fs, NormPath(CallDirs[i]))
     /\ Len(call.a.subject_ids.v) # Len(CallDirs)) =>
        /\ call.r.status = "ValueError"
        /\ df = NoTable

\* the rows (ids[i], f) for the files f found in dirs[i], directory by directory
PairedRows(ids, dirs, kw, id_column_name) ==
    Flatten([i \in 1..Len(dirs) |->
                LET files == FindFiles(fs, WithSrc(kw, dirs[i])).ret IN
                [j \in 1..Len(files) |->
                    [c \in {id_column_name, "filepath"} |->
                        IF c = "filepath" THEN StrVal(files[j]) ELSE StrVal(ids[i])]]])

\* C10: explicit mapping with lists of equal length returns, directory by
\* directory in the order given, one row (ids[i], f) for every file found in
\* dirs[i], also when an id occurs more than once (read here for directories
\* that are pairwise different)
C10_RowsPairedInOrder ==
    (/\ ExplicitMapping
     /\ call.r.status = "ok"
     /\ Cardinality(Range(CallDirs)) = Len(CallDirs)
     /\ Len(call.a.subject_ids.v) = Len(CallDirs)) =>
        df.rows = PairedRows(call.a.subject_ids.v, CallDirs, call.a.kwargs,
                             call.a.id_column_name)

----------------------------------------------------------------------------
(* Properties of the identifier modes of get_filepath_df *)

\* every directory handed to the call exists
CallDirsExist == \A i \in 1..Len(CallDirs) : IsDir(fs, NormPath(CallDirs[i]))

\* the files the call discovered, directory by directory
CallFiles ==
    Flatten([i \in 1..Len(CallDirs) |->
                FindFiles(fs, WithSrc(call.a.kwargs, CallDirs[i])).ret])

\* C11: a call of get_filepath_df that supplies the inputs of both modes (a
\* list of directories, subject ids and extract_id=True), or subject ids with
\* a single directory string and extract_id=False, fails with an error and
\* returns no table (read here for directories that all exist, so that the
\* only possible error is the one about the mode)
C11_AmbiguousInputsFail ==
    (/\ call.op = "get_filepath_df"
     /\ Truthy(call.a.subject_ids)
     /\ CallDirsExist
     /\ \/ call.a.src_dir.t = "list" /\ call.a.extract_id
        \/ call.a.src_dir.t = "str" /\ ~call.a.extract_id) =>
        /\ call.r.status # "ok"
        /\ df = NoTable

DerivedRow(f, id_column_name, pattern, g) ==
    [c \in {id_column_name, "filepath"} |->
        IF c = "filepath" THEN StrVal(f) ELSE Extracted(pattern, f, g)]

\* C13: in regex-derived mode with an allow-list (subject ids given with a
\* single directory string) exactly the files whose derived identifier is in
\* the allow-list are kept, each under its derived identifier, and a dropped
\* file is warned about; without an allow-list every discovered file is kept,
\* with the absent marker where the pattern did not match
C13_AllowListFilters ==
    (/\ call.op = "get_filepath_df"
     /\ call.a.extract_id
     /\ CallDirsExist) =>
        LET Row(f) == DerivedRow(f, call.a.id_column_name, call.a.id_pattern,
                                 call.a.re_group)
            Allowed(f) == \E i \in 1..Len(call.a.subject_ids.v) :
                              Row(f)[call.a.id_column_name]
                                  = StrVal(call.a.subject_ids.v[i])
            kept == IF call.a.src_dir.t = "str" /\ Truthy(call.a.subject_ids)
                    THEN SelectSeq(CallFiles, Allowed)
                    ELSE CallFiles
        IN  /\ call.r.status = "ok"
            /\ df.rows = [i \in 1..Len(kept) |-> Row(kept[i])]
            /\ (Len(kept) < Len(CallFiles)) => call.r.warned > 0

----------------------------------------------------------------------------
(* get_timepoint *)

DigitChars == <<"0","1","2","3","4","5","6","7","8","9">>

\* the characters of the model in code-point order
CodePoints ==
    <<"-", ".", "/">> \o DigitChars \o UpperChars \o <<"_">> \o LowerChars \o <<"{", "}">>

\* ord(c), up to the order
Ord(c) == CHOOSE i \in 1..Len(CodePoints) : CodePoints[i] = c

RECURSIVE StrLess(_, _)
\* a < b for strings
StrLess(a, b) ==
    IF b = <<>> THEN FALSE
    ELSE IF a = <<>> THEN TRUE
    ELSE IF a[1] = b[1] THEN StrLess(Tail(a), Tail(b))
    ELSE Ord(a[1]) < Ord(b[1])

RECURSIVE Decimal(_)
\* str(n) for a natural number n
Decimal(n) == IF n < 10 THEN <<DigitChars[n + 1]>>
              ELSE Decimal(n \div 10) \o <<DigitChars[(n % 10) + 1]>>

\* table values: an integer, kept with its decimal writing
IntVal(n) == [k |-> "int", s |-> Decimal(n)]

\* the order sort_values puts two values of a column in: strings by code
\* point, the absent marker last
ValLess(x, y) ==
    IF x.k = "nan" THEN FALSE
    ELSE IF y.k = "nan" THEN TRUE
    ELSE StrLess(x.s, y.s)

\* the sort key of row i: its values in the columns by
KeyOf(table, by, i) == [c \in 1..Len(by) |-> table.rows[i][by[c]]]

RECURSIVE KeyLess(_, _)
\* lexicographic order of two sort keys
KeyLess(x, y) ==
    IF x = <<>> THEN FALSE
    ELSE IF x[1] = y[1] THEN KeyLess(Tail(x), Tail(y))
    ELSE ValLess(x[1], y[1])

RECURSIVE InsertStable(_, _, _, _)
\* the index i put into the sorted index list idx behind every index whose
\* key is not greater
InsertStable(table, by, idx, i) ==
    IF idx = <<>> THEN <<i>>
    ELSE IF KeyLess(KeyOf(table, by, i), KeyOf(table, by, Head(idx)))
         THEN <<i>> \o idx
         ELSE <<Head(idx)>> \o InsertStable(table, by, Tail(idx), i)

RECURSIVE SortPrefix(_, _, _)
SortPrefix(table, by, n) ==
    IF n = 0 THEN <<>>
    ELSE InsertStable(table, by, SortPrefix(table, by, n - 1), n)

\* df.sort_values(by): the row labels in sorted order (a stable sort)
SortValues(table, by) == SortPrefix(table, by, Len(table.rows))

\* .drop_duplicates(by) on the rows idx: the first row of every key is kept
DropDuplicates(table, by, idx) ==
    LET Fresh(k) == \A j \in 1..(k - 1) :
                        KeyOf(table, by, idx[j]) # KeyOf(table, by, idx[k])
        keep == {k \in 1..Len(idx) : Fresh(k)}
        Nth(m) == CHOOSE k \in keep : Cardinality({j \in keep : j < k}) = m - 1
    IN  [m \in 1..Cardinality(keep) |-> idx[Nth(m)]]

\* a variant of cumcount that counts over all rows, not per group
CumcountAll(table, col, idx) ==
    [k \in 1..Len(idx) |-> [label |-> idx[k], count |-> k - 1]]

\* .groupby(col).cumcount() on the rows idx: for every row its label and the
\* number of rows of its group before it
Cumcount(table, col, idx) ==
    [k \in 1..Len(idx) |->
        [label |-> idx[k],
         count |-> Cardinality({j \in 1..(k - 1) :
                                   table.rows[idx[j]][col] = table.rows[idx[k]][col]})]]

\* df['t'] = series: the values are aligned on the row labels, rows without
\* a value get np.nan
AlignOnLabels(n, series) ==
    [i \in 1..n |->
        IF \E k \in 1..Len(series) : series[k].label = i
        THEN IntVal(series[CHOOSE k \in 1..Len(series) : series[k].label = i].count)
        ELSE NaN]

\* .fillna(method='ffill'): an absent value takes the last value before it in
\* row order, and stays absent if there is none
Ffill(values) ==
    [i \in 1..Len(values) |->
        LET known == {j \in 1..i : values[j] # NaN}
        IN  IF known = {} THEN NaN ELSE values[SetMax(known)]]

\* sort_values raises KeyError unless both key columns exist
TimepointColumns(table) ==
    {"participant_id", "session_label"} \subseteq Range(table.cols)

\* a variant that returns the sorted table without its repeated rows
GetTimepointSorted(table) ==
    IF ~TimepointColumns(table) THEN [status |-> "KeyError", table |-> table]
    ELSE LET by == <<"participant_id", "session_label">>
             firsts == DropDuplicates(table, by, SortValues(table, by))
             counts == Cumcount(table, "participant_id", firsts)
             sorted == [cols |-> table.cols,
                        rows |-> [k \in 1..Len(firsts) |-> table.rows[firsts[k]]]]
         IN  [status |-> "ok",
              table |-> SetColumn(sorted, "t",
                                  [k \in 1..Len(firsts) |-> IntVal(counts[k].count)])]

\* get_timepoint(filepath_df); the participant ids are taken to be strings
GetTimepoint(table) ==
    IF ~TimepointColumns(table) THEN [status |-> "KeyError", table |-> table]
    ELSE LET by == <<"participant_id", "session_label">>
             firsts == DropDuplicates(table, by, SortValues(table, by))
             counted == AlignOnLabels(Len(table.rows),
                                      Cumcount(table, "participant_id", firsts))
             t == Ffill(counted)
         IN  IF \E i \in 1..Len(t) : t[i] = NaN
             THEN [status |-> "ValueError", table |-> SetColumn(table, "t", counted)]
             ELSE [status |-> "ok", table |-> SetColumn(table, "t", t)]

----------------------------------------------------------------------------
(* get_dst_dir *)

RECURSIVE ReplaceAll(_, _, _)
\* s.replace(old, new) for a non-empty old
ReplaceAll(s, old, new) ==
    IF s = <<>> THEN <<>>
    ELSE IF HasAt(s, 0, old)
         THEN new \o ReplaceAll(SubSeq(s, Len(old) + 1, Len(s)), old, new)
         ELSE <<s[1]>> \o ReplaceAll(Tail(s), old, new)

RECURSIVE LStrip(_, _)
\* s.lstrip(c) for one character c
LStrip(s, c) == IF s # <<>> /\ s[1] = c THEN LStrip(Tail(s), c) ELSE s

\* get_dst_dir(df, src_dir, dst_dir) on a table whose paths are strings
GetDstDir(table, src_dir, dst_dir) ==
    IF "filepath" \notin Range(table.cols) THEN [status |-> "KeyError", table |-> table]
    ELSE LET src == NormPath(src_dir)
             dst == NormPath(dst_dir)
             Dst(row) == PathJoin(dst, LStrip(ReplaceAll(row["filepath"].s, src, <<>>), Sep))
         IN  [status |-> "ok",
              table |-> SetColumn(table, "dst",
                                  [i \in 1..Len(table.rows) |->
                                      StrVal(Dst(table.rows[i]))])]

----------------------------------------------------------------------------
(* get_bids_structure *)

\* the offset of the first c in s at or after the 0-based offset i, -1 if none
Find(s, c, i) ==
    IF \E j \in (i + 1)..Len(s) : s[j] = c
    THEN SetMin({j \in (i + 1)..Len(s) : s[j] = c}) - 1
    ELSE -1

RECURSIVE FindAllBraces(_, _)
\* re.findall("\{(.*?)\}", s) from the offset i on
FindAllBraces(s, i) ==
    LET open == Find(s, "{", i)
        close == IF open < 0 THEN -1 ELSE Find(s, "}", open + 1)
    IN  IF close < 0 THEN <<>>
        ELSE <<SubSeq(s, open + 2, close)>> \o FindAllBraces(s, close + 1)

\* extract_entities(recipe)
ExtractEntities(recipe) ==
    Flatten([k \in 1..Len(recipe) |-> FindAllBraces(recipe[k], 0)])

RECURSIVE JoinWith(_, _)
\* sep.join(parts)
JoinWith(sep, parts) ==
    IF parts = <<>> THEN <<>>
    ELSE IF Len(parts) = 1 THEN parts[1]
    ELSE parts[1] \o <<sep>> \o JoinWith(sep, Tail(parts))

\* str(v) of a table value
ValStr(v) == IF v.k = "nan" THEN <<"n", "a", "n">> ELSE v.s

\* a column name as a string of characters, and back; the names a recipe can
\* name
ColumnNames ==
    << [name |-> "participant_id", chars |-> <<"p","a","r","t","i","c","i","p","a","n","t","_","i","d">>],
       [name |-> "subject_id", chars |-> <<"s","u","b","j","e","c","t","_","i","d">>],
       [name |-> "session_label", chars |-> <<"s","e","s","s","i","o","n","_","l","a","b","e","l">>],
       [name |-> "session", chars |-> <<"s","e","s","s","i","o","n">>],
       [name |-> "task", chars |-> <<"t","a","s","k">>],
       [name |-> "t", chars |-> <<"t">>],
       [name |-> "run", chars |-> <<"r","u","n">>] >>

\* the column a field name names; "" when it is none of ColumnNames
ColumnOf(chars) ==
    IF \E k \in 1..Len(ColumnNames) : ColumnNames[k].chars = chars
    THEN ColumnNames[CHOOSE k \in 1..Len(ColumnNames) : ColumnNames[k].chars = chars].name
    ELSE ""

RECURSIVE Format(_, _, _)
\* template.format(**row) from the offset i on, for fields that are plain
\* names: [status, s]
Format(template, row, i) ==
    IF i >= Len(template) THEN [status |-> "ok", s |-> <<>>]
    ELSE LET c == template[i + 1]
             Rest(j, text) ==
                 LET r == Format(template, row, j)
                 IN  IF r.status # "ok" THEN r
                     ELSE [status |-> "ok", s |-> text \o r.s]
         IN  IF c = "{"
             THEN IF i + 1 < Len(template) /\ template[i + 2] = "{"
                  THEN Rest(i + 2, <<"{">>)
                  ELSE LET close == Find(template, "}", i + 1)
                           name == SubSeq(template, i + 2, close)
                       IN  IF close < 0 THEN [status |-> "ValueError", s |-> <<>>]
                           ELSE IF name = <<>> THEN [status |-> "IndexError", s |-> <<>>]
                           ELSE IF ColumnOf(name) \notin DOMAIN row
                                THEN [status |-> "KeyError", s |-> <<>>]
                           ELSE Rest(close + 1, ValStr(row[ColumnOf(name)]))
             ELSE IF c = "}"
             THEN IF i + 1 < Len(template) /\ template[i + 2] = "}"
                  THEN Rest(i + 2, <<"}">>)
                  ELSE [status |-> "ValueError", s |-> <<>>]
             ELSE Rest(i + 1, <<c>>)

\* from_template(row, template)
FromTemplate(row, template) == Format(template, row, 0)

\* df[entities]: the rows cut down to the named columns; KeyError when the
\* table lacks one of them
SelectColumns(table, entities) ==
    IF \E k \in 1..Len(entities) : ColumnOf(entities[k]) \notin Range(table.cols)
    THEN [status |-> "KeyError", rows |-> <<>>]
    ELSE [status |-> "ok",
          rows |-> [i \in 1..Len(table.rows) |->
                       [c \in {ColumnOf(entities[k]) : k \in 1..Len(entities)} |->
                           table.rows[i][c]]]]

\* a variant that renders a missing column as the empty string
RenderColumnEmpty(table, name, entities, template) ==
    LET picked == SelectColumns(table, entities)
        rendered == [i \in 1..Len(picked.rows) |-> FromTemplate(picked.rows[i], template)]
    IN  IF picked.status # "ok"
        THEN [status |-> "ok",
              table |-> SetColumn(table, name,
                                  [i \in 1..Len(table.rows) |-> StrVal(<<>>)])]
        ELSE IF FirstError(rendered) # "ok"
        THEN [status |-> FirstError(rendered), table |-> table]
        ELSE [status |-> "ok",
              table |-> SetColumn(table, name,
                                  [i \in 1..Len(rendered) |-> StrVal(rendered[i].s)])]

\* df[name] = df[entities].apply(lambda row: from_template(row, template), axis=1)
RenderColumn(table, name, entities, template) ==
    LET picked == SelectColumns(table, entities)
        rendered == [i \in 1..Len(picked.rows) |-> FromTemplate(picked.rows[i], template)]
    IN  IF picked.status # "ok" THEN [status |-> picked.status, table |-> table]
        ELSE IF FirstError(rendered) # "ok"
        THEN [status |-> FirstError(rendered), table |-> table]
        ELSE [status |-> "ok",
              table |-> SetColumn(table, name,
                                  [i \in 1..Len(rendered) |-> StrVal(rendered[i].s)])]

\* a variant that appends the file suffix without the period
BidsDstNoPeriod(row, dst_dir) ==
    IF "file_suffix" \notin DOMAIN row THEN [status |-> "KeyError", s |-> <<>>]
    ELSE IF row["file_suffix"].k # "str" THEN [status |-> "TypeError", s |-> <<>>]
    ELSE [status |-> "ok",
          s |-> PathJoin(PathJoin(dst_dir, row["bids_dir"].s), row["bids_file"].s)
                    \o row["file_suffix"].s]

\* os.path.join(dst_dir, row['bids_dir'], row['bids_file']) + '.' + row['file_suffix']
BidsDst(row, dst_dir) ==
    IF "file_suffix" \notin DOMAIN row THEN [status |-> "KeyError", s |-> <<>>]
    ELSE IF row["file_suffix"].k # "str" THEN [status |-> "TypeError", s |-> <<>>]
    ELSE [status |-> "ok",
          s |-> PathJoin(PathJoin(dst_dir, row["bids_dir"].s), row["bids_file"].s)
                    \o <<".">> \o row["file_suffix"].s]

\* get_bids_structure(df, bids_recipe_dir, bids_recipe_file, dst_dir) on a
\* table with rows and recipes that name at least one field each; the table is
\* changed in place, so the columns set before an exception stay
GetBidsStructure(table, bids_recipe_dir, bids_recipe_file, dst_dir) ==
    LET entities_dir == ExtractEntities(bids_recipe_dir)
        entities_file == ExtractEntities(bids_recipe_file)
        bids_template_dir == JoinWith("/", bids_recipe_dir)
        bids_template_file == JoinWith("_", bids_recipe_file)
        withDir == RenderColumn(table, "bids_dir", entities_dir, bids_template_dir)
        withFile == RenderColumn(withDir.table, "bids_file", entities_file,
                                 bids_template_file)
        dsts == [i \in 1..Len(withFile.table.rows) |->
                    BidsDst(withFile.table.rows[i], dst_dir)]
    IN  IF withDir.status # "ok" THEN withDir
        ELSE IF withFile.status # "ok" THEN withFile
        ELSE IF FirstError(dsts) # "ok"
        THEN [status |-> FirstError(dsts), table |-> withFile.table]
        ELSE [status |-> "ok",
              table |-> SetColumn(withFile.table, "bids_dst",
                                  [i \in 1..Len(dsts) |-> StrVal(dsts[i].s)])]

----------------------------------------------------------------------------
(* get_bids_df of the single-module revision (nisupply.py), the caller of  *)
(* get_timepoint, with its own find_files and extraction functions         *)

x_nii_gz == <<".","n","i","i",".","g","z">>

\* the keyword arguments of the earlier find_files other than src_dir
OldKwargs(suffix, prefix, preceding, exclude, cs) ==
    [file_suffix |-> suffix, file_prefix |-> prefix, preceding_dirs |-> preceding,
     exclude_dirs |-> exclude, case_sensitive |-> cs]

\* the defaults of the earlier find_files
OldDefaultKwargs == OldKwargs(Str(x_nii_gz), None, None, None, TRUE)

\* the files one visited directory contributes: the path is joined with the
\* file name as compared (lower-cased when case_sensitive is False)
OldMatchedIn(visit, kw) ==
    LET cand == [i \in 1..Len(visit.files) |->
                    Candidate(visit.files[i], kw.case_sensitive)]
        Hit(i) == /\ EndsWithAny(cand[i], kw.file_suffix)
                  /\ Truthy(kw.file_prefix) => StartsWithAny(cand[i], kw.file_prefix)
        hits == {i \in 1..Len(cand) : Hit(i)}
        Nth(m) == CHOOSE i \in hits : Cardinality({j \in hits : j < i}) = m - 1
    IN  [m \in 1..Cardinality(hits) |-> PathJoin(visit.paths, cand[Nth(m)])]

\* the filter on preceding_dirs: a path stays when one of the names is one of
\* its components
PrecedingFilter(filepath_list, preceding_dirs) ==
    IF ~Truthy(preceding_dirs) THEN filepath_list
    ELSE LET names == AsList(preceding_dirs).v
             Keep(p) == \E i \in 1..Len(names) : names[i] \in Range(Split(p))
         IN  SelectSeq(filepath_list, Keep)

\* find_files(src_dir, file_suffix, file_prefix, preceding_dirs, exclude_dirs,
\* case_sensitive) of nisupply.py: returned list and warning
OldFindFiles(disk, src_dir, kw) ==
    With(OsWalk(disk, NormPath(src_dir), kw.exclude_dirs),
         LAMBDA visits :
             With(PrecedingFilter(
                      Flatten([i \in 1..Len(visits) |-> OldMatchedIn(visits[i], kw)]),
                      kw.preceding_dirs),
                  LAMBDA filepath_list :
                      [ret |-> filepath_list,
                       warned |-> IF Len(filepath_list) = 0 THEN 1 ELSE 0]))

\* get_participant_id(filepath, pattern, regex_group)
GetParticipantId(filepath, pattern, regex_group) ==
    With(Search(pattern, filepath),
         LAMBDA m :
             IF m = NoMatch THEN [status |-> "ok", v |-> NaN]
             ELSE MatchGroup(m, filepath, regex_group))

\* get_filepath_df(src_dirs, participant_ids=None, ...) of nisupply.py for a
\* single source directory: every found file with its extracted id
OldGetFilepathDf(disk, src_dirs, id_pattern, regex_group, kw) ==
    With(OldFindFiles(disk, src_dirs, kw),
         LAMBDA found :
             With([i \in 1..Len(found.ret) |->
                      GetParticipantId(found.ret[i], id_pattern, regex_group)],
                  LAMBDA ids :
                      IF FirstError(ids) # "ok"
                      THEN [status |-> FirstError(ids), table |-> NoTable]
                      ELSE [status |-> "ok",
                            table |->
                                [cols |-> <<"participant_id", "filepath">>,
                                 rows |-> [i \in 1..Len(ids) |->
                                              [c \in {"participant_id", "filepath"} |->
                                                  IF c = "filepath"
                                                  THEN StrVal(found.ret[i])
                                                  ELSE ids[i].v]]]]))

valid_data_types ==
    << <<"f","u","n","c">>, <<"d","w","i">>, <<"f","m","a","p">>, <<"a","n","a","t">>,
       <<"m","e","g">>, <<"e","e","g">>, <<"i","e","e","g">>, <<"b","e","h">> >>

\* get_data_type(filepath): the first valid data type that is a component of
\* the path, IndexError when there is none
GetDataType(filepath) ==
    LET Here(d) == d \in Range(Split(filepath))
        found == SelectSeq(valid_data_types, Here)
    IN  IF found = <<>> THEN [status |-> "IndexError", v |-> NaN]
        ELSE [status |-> "ok", v |-> StrVal(found[1])]

\* the text a function of nisupply.py returns when its pattern has no match
NoLabel(what) == StrVal(<<"n","o","_">> \o what)

\* get_session_label(filepath): pattern '(_ses-)(\d+)', group 2
GetSessionLabel(filepath) ==
    With(Search(TagDigits(<<"_","s","e","s","-">>), filepath),
         LAMBDA m :
             IF m = NoMatch
             THEN [status |-> "ok",
                   v |-> NoLabel(<<"s","e","s","s","i","o","n","_","l","a","b","e","l">>)]
             ELSE MatchGroup(m, filepath, 2))

\* '(tag)(0)(\d+)'
TagZeroDigits(tag) ==
    Pattern(<< <<Lit(tag, TRUE), Lit(<<"0">>, TRUE), Cls(Digits, 1, TRUE)>> >>)

\* get_run_number(filepath): pattern '(_run-)(0)(\d+)', group 3
GetRunNumber(filepath) ==
    With(Search(TagZeroDigits(e_run), filepath),
         LAMBDA m :
             IF m = NoMatch
             THEN [status |-> "ok",
                   v |-> NoLabel(<<"r","u","n","_","n","u","m","b","e","r">>)]
             ELSE MatchGroup(m, filepath, 3))

\* get_echo_number(filepath): pattern '(_echo-)(0)(\d+)', group 3
GetEchoNumber(filepath) ==
    With(Search(TagZeroDigits(<<"_","e","c","h","o","-">>), filepath),
         LAMBDA m :
             IF m = NoMatch
             THEN [status |-> "ok",
                   v |-> NoLabel(<<"e","c","h","o","_","n","u","m","b","e","r">>)]
             ELSE MatchGroup(m, filepath, 3))

\* filepath_df[name] = filepath_df['filepath'].map(f), when the flag is True
MapColumn(step, flag, name, F(_)) ==
    IF step.status # "ok" \/ ~flag THEN step
    ELSE With([i \in 1..Len(step.table.rows) |-> F(step.table.rows[i]["filepath"].s)],
              LAMBDA results :
                  IF FirstError(results) # "ok"
                  THEN [status |-> FirstError(results), table |-> step.table]
                  ELSE [status |-> "ok",
                        table |-> SetColumn(step.table, name,
                                            [i \in 1..Len(results) |-> results[i].v])])

\* a variant of the check that lets the timepoints be derived without labels
TimepointStepUnchecked(step, add_session_label, add_timepoint) ==
    IF step.status # "ok" \/ ~add_timepoint THEN step
    ELSE GetTimepoint(step.table)

\* if add_timepoint == True: raise ValueError unless add_session_label == True,
\* else filepath_df = get_timepoint(filepath_df)
TimepointStep(step, add_session_label, add_timepoint) ==
    IF step.status # "ok" \/ ~add_timepoint THEN step
    ELSE IF ~add_session_label THEN [status |-> "ValueError", table |-> step.table]
    ELSE GetTimepoint(step.table)

\* get_bids_df(src_dirs, ..., add_data_type, add_session_label, add_timepoint,
\* add_run_number, add_echo_number, **kwargs) for a single source directory
\* and no participant_ids: status and the table built so far
GetBidsDf(disk, a) ==
    With(OldGetFilepathDf(disk, a.src_dirs, a.id_pattern, a.regex_group, a.kwargs),
         LAMBDA built :
             With(MapColumn(built, a.add_data_type, "data_type", GetDataType),
                  LAMBDA typed :
                      With(MapColumn(typed, a.add_session_label, "session_label",
                                     GetSessionLabel),
                           LAMBDA labelled :
                               With(TimepointStep(labelled, a.add_session_label,
                                                  a.add_timepoint),
                                    LAMBDA timed :
                                        MapColumn(
                                            MapColumn(timed, a.add_run_number,
                                                      "run_number", GetRunNumber),
                                            a.add_echo_number, "echo_number",
                                            GetEchoNumber)))))

----------------------------------------------------------------------------
(* The calls a script makes on a table it holds.  get_timepoint,           *)
(* get_dst_dir, get_bids_structure and add_bids_info are functions of the  *)
(* table handed to them, so the tables are drawn from bounded sets of the  *)
(* shape the builders produce (an id column, the filepath column) with the *)
(* columns a script adds (session labels, file suffixes).                  *)

\* largest number of rows of a table handed to get_timepoint
MaxRows == 3

\* largest number of rows of a table handed to a sequence of enrichments
MaxEnrichRows == 2

\* the table with the columns cols whose rows are the records q
MakeTable(cols, q) ==
    [cols |-> cols,
     rows |-> [i \in 1..Len(q) |-> [c \in Range(cols) |-> q[i][c]]]]

c_S1 == <<"S","1">>
c_S2 == <<"S","2">>
c_01 == <<"0","1">>
c_02 == <<"0","2">>
c_10 == <<"1","0">>
c_in == <<"i","n">>

\* a file of participant p with session label l
TimepointRecord(p, l) ==
    [participant_id |-> StrVal(p), session_label |-> StrVal(l),
     filepath |-> StrVal(c_in \o <<Sep>> \o p \o <<"_">> \o l)]

\* the files the tables handed to get_timepoint are made of
TimepointPool ==
    { TimepointRecord(c_S1, c_01), TimepointRecord(c_S1, c_02),
      TimepointRecord(c_S1, c_10), TimepointRecord(c_S2, c_01),
      TimepointRecord(c_S2, c_02) }

\* tables handed to get_timepoint: with and without session labels
TimepointTables ==
    { MakeTable(cols, q) :
          cols \in { <<"participant_id", "filepath", "session_label">>,
                     <<"participant_id", "filepath">> },
          q \in SeqsUpTo(TimepointPool, MaxRows) }

\* source directories handed to get_bids_df
BidsDfDirs ==
    { c_bids \o <<Sep>> \o c_d1, c_bids \o <<Sep>> \o c_d1 \o <<Sep>> \o c_func, c_nodir }

\* find_files keyword arguments handed to get_bids_df
BidsDfKwargs ==
    { OldDefaultKwargs,
      OldKwargs(Str(x_ni), None, None, None, TRUE),
      OldKwargs(Tup(<<x_ni, x_tx>>), Str(c_sub), Str(c_func), List(<<c_ex>>), FALSE) }

\* a script calls df = get_timepoint(df) on the table it holds
CallGetTimepoint ==
    /\ HoldsTable
    /\ \E r \in {GetTimepoint(df)} :
           /\ call' = [op |-> "get_timepoint", a |-> [df |-> df],
                       r |-> [status |-> r.status], before |-> df,
                       n |-> Steps(call) + 1]
           /\ df' = r.table
    /\ UNCHANGED fs

\* a script calls df = get_bids_df(...) of nisupply.py
CallGetBidsDf ==
    /\ call.op = "none"
    /\ \E src_dirs \in BidsDfDirs, kw \in BidsDfKwargs,
          add_data_type \in BOOLEAN, add_session_label \in BOOLEAN,
          add_timepoint \in BOOLEAN, add_numbers \in BOOLEAN :
          \E a \in {[src_dirs |-> src_dirs, id_pattern |-> DefaultIdPattern,
                     regex_group |-> DefaultIdGroup,
                     add_data_type |-> add_data_type,
                     add_session_label |-> add_session_label,
                     add_timepoint |-> add_timepoint,
                     add_run_number |-> add_numbers,
                     add_echo_number |-> add_numbers, kwargs |-> kw]} :
              \E r \in {GetBidsDf(fs, a)} :
                  /\ call' = [op |-> "get_bids_df", a |-> a,
                              r |-> [status |-> r.status], before |-> df, n |-> 0]
                  /\ df' = IF r.status = "ok" THEN r.table ELSE df
    /\ UNCHANGED fs

\* a script holds nothing, or a table with participant ids
InitTimepoint ==
    /\ fs = DiskTree
    /\ \/ df = NoTable /\ call = NoCall
       \/ df \in TimepointTables /\ call = TableCall

NextTimepoint ==
    \/ CallGetBidsDf
    \/ CallGetTimepoint

SpecTimepoint == InitTimepoint /\ [][NextTimepoint]_vars

----------------------------------------------------------------------------
(* Properties of get_timepoint *)

\* get_timepoint has returned the table df
Timed == call.op = "get_timepoint" /\ call.r.status = "ok"

\* the subject and the session label of row i
SubjectOf(table, i) == table.rows[i]["participant_id"]

LabelOf(table, i) == table.rows[i]["session_label"]

\* row i is the first row of the table with its (subject, session label)
FirstOccurrence(table, i) ==
    \A j \in 1..(i - 1) :
        ~(SubjectOf(table, j) = SubjectOf(table, i) /\ LabelOf(table, j) = LabelOf(table, i))

\* the number of distinct session labels of the subject of row i that come
\* before the label of row i in string order
RankOf(table, i) ==
    Cardinality({ LabelOf(table, j).s : j \in
                    {j \in 1..Len(table.rows) :
                        /\ SubjectOf(table, j) = SubjectOf(table, i)
                        /\ StrLess(LabelOf(table, j).s, LabelOf(table, i).s)} })

C15_EqualPairsEqualTimepoints ==
    Timed =>
        \A i, j \in 1..Len(df.rows) :
            SubjectOf(df, i) = SubjectOf(df, j) =>
                /\ LabelOf(df, i) = LabelOf(df, j) => df.rows[i]["t"] = df.rows[j]["t"]
                /\ StrLess(LabelOf(df, i).s, LabelOf(df, j).s) =>
                       ~StrLess(df.rows[j]["t"].s, df.rows[i]["t"].s)

\* the data-type step of get_bids_df completes: it is switched off, or every
\* file the call discovers has a data type among its path components
DataTypesFound ==
    \/ ~call.a.add_data_type
    \/ \A f \in Range(OldFindFiles(fs, call.a.src_dirs, call.a.kwargs).ret) :
           \E k \in 1..Len(valid_data_types) : valid_data_types[k] \in Range(Split(f))

----------------------------------------------------------------------------
(* Sequences of enrichment calls on one table *)

\* a file with its participant id, session label and file suffix
EnrichRecord(p, l, path, suffix) ==
    [participant_id |-> StrVal(p), session_label |-> StrVal(l),
     filepath |-> StrVal(path), file_suffix |-> StrVal(suffix)]

\* the files the tables handed to the enrichment calls are made of
EnrichPool ==
    { EnrichRecord(c_01, <<"1">>,
                   c_bids \o <<Sep>> \o c_d1 \o <<Sep>> \o e_sub01 \o e_ses1 \o x_ni,
                   <<"n","i">>),
      EnrichRecord(c_01, <<"2">>,
                   c_bids \o <<Sep>> \o c_d1 \o <<Sep>> \o e_sub01 \o e_ses2 \o e_echo1 \o x_ni,
                   <<"n","i">>),
      EnrichRecord(c_02, <<"1">>,
                   c_bids \o <<Sep>> \o c_d2 \o <<Sep>> \o e_sub02 \o e_ses1 \o x_ni,
                   x_ni) }

\* tables handed to the enrichment calls: with and without the columns a
\* script adds
EnrichTables ==
    { MakeTable(cols, q) :
          cols \in { <<"participant_id", "filepath", "session_label", "file_suffix">>,
                     <<"participant_id", "filepath">> },
          q \in SeqsUpTo(EnrichPool, MaxEnrichRows) }

c_out == <<"o","u","t">>

\* (src_dir, dst_dir) pairs handed to get_dst_dir
DstDirArgs ==
    { <<c_bids, c_out>>,
      <<c_bids \o <<Sep>> \o c_d1 \o <<Sep>>, c_out \o <<Sep>> \o <<"x">> \o <<Sep>> \o DotDot>> }

\* 'sub-{participant_id}'
r_sub == <<"s","u","b","-","{","p","a","r","t","i","c","i","p","a","n","t","_","i","d","}">>

\* 'ses-{session_label}'
r_ses == <<"s","e","s","-","{","s","e","s","s","i","o","n","_","l","a","b","e","l","}">>

\* '{task}'
r_task == <<"{","t","a","s","k","}">>

\* 't-{t}'
r_t == <<"t","-","{","t","}">>

\* bids_recipe_dir values handed to get_bids_structure
RecipesDir == { <<r_sub, r_ses>>, <<r_sub, r_task>> }

\* bids_recipe_file values handed to get_bids_structure
RecipesFile == { <<r_sub, r_t>>, <<r_sub, r_ses>> }

\* dst_dir values handed to get_bids_structure
StructureDstDirs == { c_out, c_out \o <<Sep>>, <<Sep>> \o c_out }

\* a script calls df = get_dst_dir(df, src_dir, dst_dir) on the table it holds
CallGetDstDir ==
    /\ HoldsTable
    /\ \E args \in DstDirArgs :
           \E r \in {GetDstDir(df, args[1], args[2])} :
               /\ call' = [op |-> "get_dst_dir",
                           a |-> [src_dir |-> args[1], dst_dir |-> args[2]],
                           r |-> [status |-> r.status], before |-> df,
                           n |-> Steps(call) + 1]
               /\ df' = r.table
    /\ UNCHANGED fs

\* a script calls df = get_bids_structure(df, ...) on the table it holds
CallGetBidsStructure ==
    /\ HoldsTable
    /\ df.rows # <<>>
    /\ \E bids_recipe_dir \in RecipesDir, bids_recipe_file \in RecipesFile,
          dst_dir \in StructureDstDirs :
           \E r \in {GetBidsStructure(df, bids_recipe_dir, bids_recipe_file, dst_dir)} :
               /\ call' = [op |-> "get_bids_structure",
                           a |-> [bids_recipe_dir |-> bids_recipe_dir,
                                  bids_recipe_file |-> bids_recipe_file,
                                  dst_dir |-> dst_dir],
                           r |-> [status |-> r.status], before |-> df,
                           n |-> Steps(call) + 1]
               /\ df' = r.table
    /\ UNCHANGED fs

\* a script holds a table of files
InitEnrich ==
    /\ fs = DiskTree
    /\ df \in EnrichTables
    /\ call = TableCall

NextEnrich ==
    \/ CallAddBidsInfo
    \/ CallGetTimepoint
    \/ CallGetDstDir
    \/ CallGetBidsStructure

SpecEnrich == InitEnrich /\ [][NextEnrich]_vars

----------------------------------------------------------------------------
(* Properties of get_bids_structure *)

\* the last call was get_bids_structure
Structuring == call.op = "get_bids_structure"

\* the column names a recipe names between braces
NamedIn(recipe) ==
    { ColumnNames[k].name : k \in { j \in 1..Len(ColumnNames) :
          \E e \in 1..Len(recipe) :
              Contains(recipe[e], <<"{">> \o ColumnNames[j].chars \o <<"}">>) } }

\* the columns the two recipes of the last call name and the table lacked
MissingColumns ==
    (NamedIn(call.a.bids_recipe_dir) \cup NamedIn(call.a.bids_recipe_file))
        \ Range(call.before.cols)

\* the column of a table, or "absent"
ColumnOrAbsent(table, name) ==
    IF name \in Range(table.cols) THEN Column(table, name) ELSE "absent"

\* C17: when a recipe of get_bids_structure names a column the table lacks,
\* the call raises a KeyError and renders no destination for any row: the
\* table has no 'bids_dst' column it did not have before the call
C17_MissingColumnFails ==
    (Structuring /\ MissingColumns # {})
        => /\ call.r.status = "KeyError"
           /\ ColumnOrAbsent(df, "bids_dst") = ColumnOrAbsent(call.before, "bids_dst")

\* a call whose directory recipe names the absent 'task' column on a table
\* that has rows and every other column the call reads
C17_Witness ==
    /\ Structuring
    /\ "task" \in MissingColumns
    /\ "file_suffix" \in Range(call.before.cols)
    /\ NamedIn(call.a.bids_recipe_file) \subseteq Range(call.before.cols)
    /\ Len(df.rows) = 2
    /\ call.r.status = "KeyError"

\* get_bids_structure returned a table
Structured == Structuring /\ call.r.status = "ok"

RECURSIVE Substituted(_, _, _)
\* the text with every {name} of the first k column names replaced by the
\* row's value of that column
Substituted(text, row, k) ==
    IF k = 0 THEN text
    ELSE LET done == Substituted(text, row, k - 1)
             c == ColumnNames[k]
         IN  IF c.name \in DOMAIN row
             THEN ReplaceAll(done, <<"{">> \o c.chars \o <<"}">>, ValStr(row[c.name]))
             ELSE done

\* the recipe's parts joined by sep, with the row's values in the placeholders
Rendered(recipe, sep, row) ==
    Substituted(JoinWith(sep, recipe), row, Len(ColumnNames))

\* a directory and a relative name joined by the path separator
SepJoined(dir, name) ==
    IF dir[Len(dir)] = Sep THEN dir \o name ELSE dir \o <<Sep>> \o name

\* the row's columns a recipe names
NamedColumns(recipe, row) == [c \in NamedIn(recipe) \cap DOMAIN row |-> row[c]]

\* the directory part, the file name part and the destination of row i are
\* the rendered recipes, joined to dst_dir, with the text `between` and the
\* row's file suffix at the end; only the named columns are read
DestinationsAre(between) ==
    \A i \in 1..Len(df.rows) :
        LET row == call.before.rows[i]
            dir == Rendered(call.a.bids_recipe_dir, "/",
                            NamedColumns(call.a.bids_recipe_dir, row))
            file == Rendered(call.a.bids_recipe_file, "_",
                             NamedColumns(call.a.bids_recipe_file, row))
        IN  /\ df.rows[i]["bids_dir"] = StrVal(dir)
            /\ df.rows[i]["bids_file"] = StrVal(file)
            /\ df.rows[i]["bids_dst"] =
                   StrVal(SepJoined(SepJoined(call.a.dst_dir, dir), file)
                              \o between \o row["file_suffix"].s)

----------------------------------------------------------------------------
(* Properties of the enrichment calls *)

\* the calls that add columns to a table
EnrichmentOps == {"add_bids_info", "get_timepoint", "get_dst_dir", "get_bids_structure"}

\* the last call was an enrichment call that returned a table
Enriched == call.op \in EnrichmentOps /\ call.r.status = "ok"

\* C19: an enrichment call that succeeds keeps every column the table had,
\* keeps the number and the order of the rows, and leaves every row the
\* non-empty path it had; so does every sequence of such calls
C19_EnrichmentOnlyAddsColumns ==
    Enriched =>
        /\ Range(call.before.cols) \subseteq Range(df.cols)
        /\ Len(df.rows) = Len(call.before.rows)
        /\ \A i \in 1..Len(df.rows) :
               /\ DOMAIN df.rows[i] = Range(df.cols)
               /\ df.rows[i]["filepath"] = call.before.rows[i]["filepath"]
               /\ df.rows[i]["participant_id"] = call.before.rows[i]["participant_id"]
               /\ df.rows[i]["filepath"].k = "str"
               /\ df.rows[i]["filepath"].s # <<>>

\* two calls in a row succeeded on a table of two rows that is not sorted by
\* participant: get_timepoint, then get_bids_structure, which added columns
C19_Witness ==
    /\ Enriched
    /\ call.op = "get_bids_structure"
    /\ Steps(call) = 2
    /\ {"t", "bids_dir", "bids_file", "bids_dst"} \subseteq Range(df.cols)
    /\ Len(df.rows) = 2
    /\ df.rows[1]["participant_id"] = StrVal(c_02)
    /\ df.rows[2]["participant_id"] = StrVal(c_01)

----------------------------------------------------------------------------
(* uncompress_files *)
(* Here the file system is a function from the normalised paths that exist *)
(* to what is there: a directory, or a file with its data, gzip-compressed *)
(* or not.                                                                 *)

\* largest number of paths handed to uncompress_files
MaxFiles == 2

DirEntry == [kind |-> "dir"]

FileEntry(gz, data) == [kind |-> "file", gz |-> gz, data |-> data]

\* os.path.exists
Exists(disk, path) == NormPath(path) \in DOMAIN disk

\* os.path.dirname, '.' for a bare name
DirName(path) ==
    IF Len(Split(path)) = 1 THEN Dot
    ELSE JoinSegs(SubSeq(Split(path), 1, Len(Split(path)) - 1))

RECURSIVE SplitOn(_, _, _, _)
\* s.split(c) from the position i on, cur being the piece read so far
SplitOn(s, c, i, cur) ==
    IF i > Len(s) THEN <<cur>>
    ELSE IF s[i] = c THEN <<cur>> \o SplitOn(s, c, i + 1, <<>>)
    ELSE SplitOn(s, c, i + 1, Append(cur, s[i]))

\* pathlib.Path(f).suffixes
PathSuffixes(f) ==
    LET name == BaseName(f)
        pieces == SplitOn(LStrip(name, "."), ".", 1, <<>>)
    IN  IF name # <<>> /\ name[Len(name)] = "." THEN <<>>
        ELSE [k \in 1..(Len(pieces) - 1) |-> <<".">> \o pieces[k + 1]]

\* filepath_uncompressed of one file: [status, path]
UncompressedPath(f, dst_dir) ==
    LET file_extensions == PathSuffixes(f)
        file_extension == file_extensions[1]
        both_extensions == Flatten(file_extensions)
        beside == ReplaceAll(f, both_extensions, file_extension)
    IN  IF file_extensions = <<>> THEN [status |-> "IndexError", path |-> <<>>]
        ELSE IF Truthy(dst_dir)
        THEN [status |-> "ok", path |-> PathJoin(NormPath(dst_dir.v[1]), BaseName(beside))]
        ELSE [status |-> "ok", path |-> beside]

\* with gzip.open(f,'rb') as f_in: with open(target,'wb') as f_out:
\* shutil.copyfileobj(f_in,f_out): [status, disk, written]
Gunzip(disk, f, target) ==
    LET src == NormPath(f)
        dst == NormPath(target)
        Put(data) == [q \in DOMAIN disk \cup {dst} |->
                         IF q = dst THEN FileEntry(FALSE, data) ELSE disk[q]]
        Failed(status) == [status |-> status, disk |-> disk, written |-> {}]
    IN  IF src \notin DOMAIN disk THEN Failed("FileNotFoundError")
        ELSE IF disk[src].kind = "dir" THEN Failed("IsADirectoryError")
        ELSE IF NormPath(DirName(dst)) \notin DOMAIN disk THEN Failed("FileNotFoundError")
        ELSE IF disk[NormPath(DirName(dst))].kind # "dir" THEN Failed("NotADirectoryError")
        ELSE IF ~disk[src].gz
        THEN [status |-> "BadGzipFile", disk |-> Put(""), written |-> {dst}]
        ELSE [status |-> "ok", disk |-> Put(disk[src].data), written |-> {dst}]

\* a variant of the loop body that does not look whether the target exists
UncompressAlways(disk, f, dst_dir) ==
    LET target == UncompressedPath(f, dst_dir)
    IN  IF target.status # "ok"
        THEN [status |-> target.status, disk |-> disk, written |-> {}]
        ELSE Gunzip(disk, f, target.path)

\* the body of the loop of uncompress_files for the file f
UncompressOne(disk, f, dst_dir) ==
    LET target == UncompressedPath(f, dst_dir)
    IN  IF target.status # "ok"
        THEN [status |-> target.status, disk |-> disk, written |-> {}]
        ELSE IF Exists(disk, target.path)
        THEN [status |-> "ok", disk |-> disk, written |-> {}]
        ELSE Gunzip(disk, f, target.path)

RECURSIVE UncompressFrom(_, _, _, _)
\* the loop of uncompress_files from the i-th file on; an exception ends it;
\* listed is what the loop appends to filepath_list_uncompressed
UncompressFrom(disk, filepath_list, dst_dir, i) ==
    IF i > Len(filepath_list)
    THEN [status |-> "ok", disk |-> disk, written |-> {}, listed |-> <<>>]
    ELSE With(UncompressOne(disk, filepath_list[i], dst_dir),
              LAMBDA one :
                  IF one.status # "ok"
                  THEN [status |-> one.status, disk |-> one.disk,
                        written |-> one.written, listed |-> <<>>]
                  ELSE With(UncompressFrom(one.disk, filepath_list, dst_dir, i + 1),
                            LAMBDA rest :
                                [status |-> rest.status, disk |-> rest.disk,
                                 written |-> one.written \cup rest.written,
                                 listed |-> <<UncompressedPath(filepath_list[i],
                                                               dst_dir).path>>
                                                \o rest.listed]))

\* the bare return that ends uncompress_files: the list is dropped and the
\* caller gets None
ReturnBare(listed) == None

\* uncompress_files(filepath_list, dst_dir)
UncompressFiles(disk, filepath_list, dst_dir) ==
    LET r == UncompressFrom(disk, filepath_list, dst_dir, 1)
    IN  [status |-> r.status, disk |-> r.disk, written |-> r.written,
         value |-> IF r.status = "ok" THEN ReturnBare(r.listed) ELSE None]

c_v1 == <<"v",".","1">>
x_gz == <<".","g","z">>

\* data/<name>
InData(name) == c_data \o <<Sep>> \o name

\* the compressed files of a project, with a plain file that carries the
\* double extension, a file with one extension and a file with none
PackedDisk ==
    [q \in { Dot, c_data, InData(c_v1), c_out,
             InData(<<"a">> \o x_ni \o x_gz), InData(c_v1 \o <<Sep, "a">> \o x_ni \o x_gz),
             InData(<<"b">> \o x_ni \o x_gz), InData(<<"p">> \o x_ni \o x_gz),
             InData(<<"c">> \o x_gz), InData(<<"n">>) } |->
        CASE q \in {Dot, c_data, InData(c_v1), c_out} -> DirEntry
          [] q = InData(<<"a">> \o x_ni \o x_gz) -> FileEntry(TRUE, "A")
          [] q = InData(c_v1 \o <<Sep, "a">> \o x_ni \o x_gz) -> FileEntry(TRUE, "V")
          [] q = InData(<<"b">> \o x_ni \o x_gz) -> FileEntry(TRUE, "B")
          [] q = InData(<<"p">> \o x_ni \o x_gz) -> FileEntry(FALSE, "P")
          [] q = InData(<<"c">> \o x_gz) -> FileEntry(TRUE, "C")
          [] OTHER -> FileEntry(FALSE, "N")]

\* the same with data/b.ni already there
PackedDiskWithTarget ==
    [q \in DOMAIN PackedDisk \cup {InData(<<"b">> \o x_ni)} |->
        IF q \in DOMAIN PackedDisk THEN PackedDisk[q] ELSE FileEntry(FALSE, "old")]

\* the paths handed to uncompress_files: the files of the disk and one that
\* does not exist
PackedPaths ==
    { q \in DOMAIN PackedDisk : PackedDisk[q].kind = "file" }
        \cup { InData(<<"m">> \o x_ni \o x_gz) }

\* the dst_dir values handed to uncompress_files
UncompressDstDirs == { None, Str(c_out), Str(c_out \o <<Sep>>), Str(c_nodir) }

\* the record of a call of uncompress_files, the k-th in a row
UncompressCall(a, r, before, k, prev) ==
    [op |-> "uncompress_files", a |-> a,
     r |-> [status |-> r.status, written |-> r.written, value |-> r.value],
     before |-> before, n |-> k, prev |-> prev]

\* a script calls uncompress_files(filepath_list, dst_dir)
CallUncompressFiles ==
    /\ call = NoCall
    /\ \E filepath_list \in SeqsUpTo(PackedPaths, MaxFiles), dst_dir \in UncompressDstDirs :
           \E r \in {UncompressFiles(fs, filepath_list, dst_dir)} :
               /\ call' = UncompressCall([filepath_list |-> filepath_list,
                                          dst_dir |-> dst_dir], r, fs, 1, "none")
               /\ fs' = r.disk
    /\ UNCHANGED df

\* the script is run again: the same call on the same list
CallUncompressAgain ==
    /\ call.op = "uncompress_files"
    /\ Steps(call) < MaxCalls
    /\ \E r \in {UncompressFiles(fs, call.a.filepath_list, call.a.dst_dir)} :
           /\ call' = UncompressCall(call.a, r, fs, Steps(call) + 1, call.r.status)
           /\ fs' = r.disk
    /\ UNCHANGED df

InitUncompress ==
    /\ fs \in {PackedDisk, PackedDiskWithTarget}
    /\ df = NoTable
    /\ call = NoCall

NextUncompress ==
    \/ CallUncompressFiles
    \/ CallUncompressAgain

SpecUncompress == InitUncompress /\ [][NextUncompress]_vars

----------------------------------------------------------------------------
(* Properties of uncompress_files *)

\* uncompress_files returned
Uncompressed == call.op = "uncompress_files" /\ call.r.status = "ok"

\* the file name has exactly two extensions
TwoExtensions(f) ==
    Cardinality({i \in 1..Len(BaseName(f)) : BaseName(f)[i] = "."}) = 2

\* the text before the last period
WithoutLastExtension(s) == SubSeq(s, 1, SetMax({i \in 1..Len(s) : s[i] = "."}) - 1)

\* where name.<ext> of the file f belongs: in dst_dir, or beside f
TargetOf(f, dst_dir) ==
    IF dst_dir = None THEN WithoutLastExtension(f)
    ELSE NormPath(dst_dir.v[1]) \o <<Sep>> \o WithoutLastExtension(BaseName(f))

\* C20: a call of uncompress_files that returns leaves every file that was
\* there as it was; for every file of the list named name.<ext>.<compression>
\* the target name.<ext>, in dst_dir or beside the source, is there: kept and
\* not written if it was there before, else written with the data of the
\* first file of the list that has this target. A second run on the same list
\* after a run that returned raises nothing, writes nothing and leaves the
\* file system as it was
C20_UncompressIdempotent ==
    Uncompressed =>
        /\ \A q \in DOMAIN call.before : q \in DOMAIN fs /\ fs[q] = call.before[q]
        /\ \A i \in 1..Len(call.a.filepath_list) :
               LET f == call.a.filepath_list[i]
                   target == TargetOf(f, call.a.dst_dir)
                   first == SetMin({j \in 1..i :
                               TargetOf(call.a.filepath_list[j], call.a.dst_dir) = target})
               IN  TwoExtensions(f) =>
                      /\ target \in DOMAIN fs
                      /\ (target \in call.r.written) = (target \notin DOMAIN call.before)
                      /\ target \notin DOMAIN call.before =>
                             fs[target] = FileEntry(FALSE,
                                 call.before[call.a.filepath_list[first]].data)
        /\ (Steps(call) >= 2 /\ call.prev = "ok") =>
               /\ fs = call.before
               /\ call.r.written = {}

\* the second run of a call that had uncompressed one file and had found the
\* target of another one in place
C20_Witness ==
    /\ call.op = "uncompress_files"
    /\ Steps(call) = 2
    /\ call.prev = "ok"
    /\ call.r.status = "ok"
    /\ Len(call.a.filepath_list) = 2
    /\ {InData(<<"a">> \o x_ni), InData(<<"b">> \o x_ni)} \subseteq DOMAIN fs
    /\ fs[InData(<<"a">> \o x_ni)] = FileEntry(FALSE, "A")
    /\ fs[InData(<<"b">> \o x_ni)] = FileEntry(FALSE, "old")

\* C21: uncompress_files returns the list of the uncompressed paths, one
\* for every path of the input list and in its order, whether the file was
\* written by this call or was there before
C21_ReturnsUncompressedPaths ==
    (Uncompressed /\ \A i \in 1..Len(call.a.filepath_list) :
                         TwoExtensions(call.a.filepath_list[i]))
        => call.r.value = List([i \in 1..Len(call.a.filepath_list) |->
                                   TargetOf(call.a.filepath_list[i], call.a.dst_dir)])

----------------------------------------------------------------------------
(* Properties of find_files with a single directory name to exclude *)

\* the call with the single name wrapped into a one-element list
WithExcludeList(a) == [a EXCEPT !.exclude_dirs = List(a.exclude_dirs.v)]

\* C22: with exclude_dirs given as one directory name s, find_files visits
\* the directories and returns the files it visits and returns with the list
\* [s]: a directory is pruned exactly when its name is s
C22_SingleNameExcludesByEquality ==
    (FoundFiles /\ call.a.exclude_dirs.t = "str" /\ Truthy(call.a.exclude_dirs))
        => /\ call.r.ret = FindFiles(fs, WithExcludeList(call.a)).ret
           /\ call.r.visited = FindFiles(fs, WithExcludeList(call.a)).visited

----------------------------------------------------------------------------
(* get_dst_dir on tables of files below the source directory *)

\* files below bids and bids/d1; two of them have the text 'bids' again in
\* a directory name or in the file name
DstDirPool ==
    { [filepath |-> StrVal(c_bids \o <<Sep>> \o c_d1 \o <<Sep, "a">> \o x_ni)],
      [filepath |-> StrVal(c_bids \o <<Sep>> \o c_d2 \o <<Sep, "b">> \o x_ni)],
      [filepath |-> StrVal(c_bids \o <<Sep>> \o c_d1 \o <<Sep>> \o c_bids \o <<Sep, "a">> \o x_ni)],
      [filepath |-> StrVal(c_bids \o <<Sep>> \o c_d1 \o <<Sep>> \o c_bids \o x_ni)] }

\* the tables handed to get_dst_dir
DstDirTables == { MakeTable(<<"filepath">>, q) : q \in SeqsUpTo(DstDirPool, MaxEnrichRows) }

InitDstDir ==
    /\ fs = DiskTree
    /\ df \in DstDirTables
    /\ call = TableCall

NextDstDir == CallGetDstDir

SpecDstDir == InitDstDir /\ [][NextDstDir]_vars

\* the path lies below the directory
Below(path, dir) == StartsWith(path, dir \o <<Sep>>)

\* the path relative to the directory it lies below
RelativeTo(path, dir) == SubSeq(path, Len(dir) + 2, Len(path))

\* C23: for every row whose filepath lies below src_dir, 'dst' is dst_dir
\* joined with the path relative to src_dir, whatever the relative path
\* holds
C23_RelativePathPreserved ==
    (call.op = "get_dst_dir" /\ call.r.status = "ok") =>
        \A i \in 1..Len(df.rows) :
            LET path == call.before.rows[i]["filepath"].s
                src == NormPath(call.a.src_dir)
            IN  Below(path, src) =>
                    df.rows[i]["dst"] =
                        StrVal(NormPath(call.a.dst_dir) \o <<Sep>> \o RelativeTo(path, src))

----------------------------------------------------------------------------
(* The table after a call of get_bids_structure that raised *)

\* C24: when get_bids_structure raises, the table the caller holds has the
\* columns and the values it had before the call
C24_FailedRenderingLeavesTable ==
    (Structuring /\ call.r.status # "ok") => df = call.before

----------------------------------------------------------------------------
(* The stages in the order of the data flow: get_filepath_df, add_bids_info *)
(* and get_timepoint on one table                                           *)

NextPipeline ==
    \/ CallGetFilepathDf
    \/ CallAddBidsInfo
    \/ CallGetTimepoint

SpecPipeline == Init /\ [][NextPipeline]_vars

\* the table get_timepoint was called on has the columns get_filepath_df
\* writes by default and the columns add_bids_info writes by default
DefaultColumnsBefore ==
    {"filepath", "subject_id"} \cup Keys(BIDS_ENTITY_REGEX_DICT)
        \subseteq Range(call.before.cols)

\* C25: get_timepoint succeeds on a table built by get_filepath_df with its
\* default column names and enriched by add_bids_info with the default
\* entities
C25_TimepointReadsDefaultColumns ==
    (call.op = "get_timepoint" /\ DefaultColumnsBefore) => call.r.status = "ok"

====
